---- MODULE Spec2Model ----
(***************************************************************************)
(* Model of the spoken-doubt pipeline of the classroom backend:            *)
(*   audio_module/trigger_detector.py  TriggerDetector                     *)
(*   doubt_assistant.py                DoubtAssistant (session machine)    *)
(*   device_client.py                  DeviceClient / ClassroomClient      *)
(*   ai_module/local_ollama.py         LocalOllama                         *)
(*   audio_module/vad.py               VADDetector (capture thread)        *)
(*   audio_module/stt.py               SpeechToText.transcribe             *)
(*   classroom_runner.py               ClassroomRunner._on_speech_segment  *)
(* Text is modelled as sequences of one-character strings so that the      *)
(* regular expressions of the trigger detector are computed, not assumed.  *)
(***************************************************************************)
EXTENDS Integers, Sequences, FiniteSets, TLC

\* ------------------------------------------------------------------ bounds
MaxTicks == 2
TickStep == 30
MaxCalls == 2
MaxFrames == 12
MaxThreadCalls == 2
\* phrases per transcript handed to the text functions
MaxWords == 3

\* ------------------------------------------------------- program constants
OLLAMA_RETRY_INTERVAL == 60
\* consecutive speech frames that start a segment (vad.py, run)
SPEECH_START_FRAMES == 2
\* consecutive silence frames that end a segment (vad.py, run)
SILENCE_END_FRAMES == 3
\* the noise floor of _basic_aec: np.std(speaker) > 100 (aec.py)
NOISE_FLOOR == 100
\* AcousticEchoCanceller.__init__: filter_length=1024 (aec.py)
FILTER_LENGTH == 1024

STATE_VIDEO_PLAYING == "VIDEO_PLAYING"
STATE_DOUBT_MODE == "DOUBT_MODE"

\* Python's None, for fields that hold a string or nothing.
None == "None"
\* Python's None / a value, for fields that hold a number or nothing.
Nothing == <<>>
Some(x) == <<x>>

\* ------------------------------------------------------------ text helpers
UpperChars ==
  <<"A","B","C","D","E","F","G","H","I","J","K","L","M",
    "N","O","P","Q","R","S","T","U","V","W","X","Y","Z">>
LowerChars ==
  <<"a","b","c","d","e","f","g","h","i","j","k","l","m",
    "n","o","p","q","r","s","t","u","v","w","x","y","z">>
DigitChars == {"0","1","2","3","4","5","6","7","8","9"}

\* str.lower() on one character
LowerChar(c) ==
  IF \E i \in 1..26 : UpperChars[i] = c
  THEN LowerChars[CHOOSE i \in 1..26 : UpperChars[i] = c]
  ELSE c

\* str.lower()
Lower(s) == [i \in 1..Len(s) |-> LowerChar(s[i])]

\* \s of the re module, restricted to the characters of the model
IsSpace(c) == c \in {" ", "\t", "\n"}

\* \w of the re module
IsWordChar(c) ==
  \/ \E i \in 1..26 : c = UpperChars[i] \/ c = LowerChars[i]
  \/ c \in DigitChars
  \/ c = "_"

RECURSIVE LStrip(_)
LStrip(s) == IF s # <<>> /\ IsSpace(s[1]) THEN LStrip(Tail(s)) ELSE s

RECURSIVE RStrip(_)
RStrip(s) ==
  IF s # <<>> /\ IsSpace(s[Len(s)]) THEN RStrip(SubSeq(s, 1, Len(s) - 1)) ELSE s

\* str.strip()
Strip(s) == RStrip(LStrip(s))

\* the literal pat occurs in text at position i
MatchAt(text, pat, i) ==
  /\ i >= 1
  /\ i + Len(pat) - 1 <= Len(text)
  /\ SubSeq(text, i, i + Len(pat) - 1) = pat

\* \b before position i / after position j of text (pattern edges are word
\* characters, so a boundary needs a non-word character or the string edge)
BoundaryBefore(text, i) == i = 1 \/ ~IsWordChar(text[i - 1])
BoundaryAfter(text, j) == j = Len(text) \/ ~IsWordChar(text[j + 1])

\* ------------------------------------------------- TriggerDetector (regex)
DOUBT_TRIGGERS ==
  << <<"d","o","u","b","t">>,
     <<"i"," ","h","a","v","e"," ","a"," ","d","o","u","b","t">>,
     <<"i"," ","h","a","v","e"," ","a"," ","q","u","e","s","t","i","o","n">>,
     <<"q","u","e","s","t","i","o","n">>,
     <<"c","a","n"," ","y","o","u"," ","e","x","p","l","a","i","n">>,
     <<"i"," ","d","o","n","'","t"," ","u","n","d","e","r","s","t","a","n","d">>,
     <<"i"," ","d","o","n","t"," ","u","n","d","e","r","s","t","a","n","d">>,
     <<"w","h","a","t"," ","d","o","e","s"," ","t","h","a","t"," ","m","e","a","n">>,
     <<"p","l","e","a","s","e"," ","e","x","p","l","a","i","n">>,
     <<"c","l","a","r","i","f","y">>,
     <<"c","o","n","f","u","s","e","d">>,
     <<"h","e","l","p"," ","m","e"," ","u","n","d","e","r","s","t","a","n","d">> >>
RESUME_TRIGGERS ==
  << <<"o","k","a","y">>,
     <<"o","k">>,
     <<"u","n","d","e","r","s","t","o","o","d">>,
     <<"i"," ","u","n","d","e","r","s","t","a","n","d">>,
     <<"i"," ","g","o","t"," ","i","t">>,
     <<"g","o","t"," ","i","t">>,
     <<"t","h","a","n","k"," ","y","o","u">>,
     <<"t","h","a","n","k","s">>,
     <<"c","l","e","a","r">>,
     <<"t","h","a","t","'","s"," ","c","l","e","a","r">>,
     <<"t","h","a","t","s"," ","c","l","e","a","r">>,
     <<"m","a","k","e","s"," ","s","e","n","s","e">>,
     <<"r","e","s","u","m","e">>,
     <<"c","o","n","t","i","n","u","e">>,
     <<"p","l","a","y">> >>

\* one alternative of _compile_pattern: a phrase with a space matches
\* anywhere, a single word only between word boundaries
TriggerMatches(text, t) ==
  IF \E k \in 1..Len(t) : t[k] = " "
  THEN \E i \in 1..Len(text) : MatchAt(text, t, i)
  ELSE \E i \in 1..Len(text) :
         /\ MatchAt(text, t, i)
         /\ BoundaryBefore(text, i)
         /\ BoundaryAfter(text, i + Len(t) - 1)

\* compiled_pattern.search(text): some alternative matches somewhere
PatternSearch(triggers, text) ==
  \E k \in 1..Len(triggers) : TriggerMatches(text, Lower(triggers[k]))

\* (mutant) a detector that checks the resume phrases first
detect_trigger_ResumeFirst(transcript) ==
  IF transcript = <<>> THEN None
  ELSE LET text == Strip(Lower(transcript))
       IN  IF PatternSearch(RESUME_TRIGGERS, text) THEN "resume"
           ELSE IF PatternSearch(DOUBT_TRIGGERS, text) THEN "doubt"
           ELSE None

detect_trigger(transcript) ==
  IF transcript = <<>> THEN None
  ELSE LET text == Strip(Lower(transcript))
       IN  IF PatternSearch(DOUBT_TRIGGERS, text) THEN "doubt"
           ELSE IF PatternSearch(RESUME_TRIGGERS, text) THEN "resume"
           ELSE None

\* text starts with the literal lit, ignoring case (re.IGNORECASE, ^ anchor)
StartsWithCI(text, lit) ==
  /\ Len(text) >= Len(lit)
  /\ Lower(SubSeq(text, 1, Len(lit))) = lit

\* the tail "[,.]?\s*" shared by the four prefix rules
DropPunctSpace(text) ==
  LStrip(IF text # <<>> /\ text[1] \in {",", "."} THEN Tail(text) ELSE text)

\* re.sub(r"^(lit1|lit2|...)[,.]?\s*", "", text): alts is the ordered list
\* of literal prefixes the rule's alternation can match
RemovePrefix(text, alts) ==
  IF \E k \in 1..Len(alts) : StartsWithCI(text, alts[k])
  THEN LET k == CHOOSE k \in 1..Len(alts) :
                  /\ StartsWithCI(text, alts[k])
                  /\ \A j \in 1..(k - 1) : ~StartsWithCI(text, alts[j])
       IN  DropPunctSpace(SubSeq(text, Len(alts[k]) + 1, Len(text)))
  ELSE text

\* the four patterns of prefixes_to_remove, each as the ordered list of
\* literal prefixes its alternation matches
PREFIX_HAVE == << <<"i"," ","h","a","v","e"," ","a"," ","d","o","u","b","t">>, <<"i"," ","h","a","v","e"," ","a"," ","q","u","e","s","t","i","o","n">> >>
PREFIX_EXPLAIN ==
  << <<"c","a","n"," ","y","o","u"," ","e","x","p","l","a","i","n">>, <<"c","a","n"," ","y","o","u"," ","c","l","a","r","i","f","y">>, <<"p","l","e","a","s","e"," ","e","x","p","l","a","i","n">>, <<"p","l","e","a","s","e"," ","c","l","a","r","i","f","y">>, <<"e","x","p","l","a","i","n">>, <<"c","l","a","r","i","f","y">> >>
PREFIX_DOUBT == << <<"d","o","u","b","t">> >>
PREFIX_QUESTION == << <<"q","u","e","s","t","i","o","n">> >>
prefixes_to_remove == << PREFIX_HAVE, PREFIX_EXPLAIN, PREFIX_DOUBT, PREFIX_QUESTION >>

RECURSIVE ApplyPrefixRules(_, _)
ApplyPrefixRules(text, k) ==
  IF k > Len(prefixes_to_remove) THEN text
  ELSE ApplyPrefixRules(RemovePrefix(text, prefixes_to_remove[k]), k + 1)

\* (mutant) an extraction that runs the four rules a second time
extract_question_Twice(transcript) ==
  IF transcript = <<>> THEN <<>>
  ELSE Strip(ApplyPrefixRules(ApplyPrefixRules(Strip(transcript), 1), 1))

extract_question(transcript) ==
  IF transcript = <<>> THEN <<>>
  ELSE Strip(ApplyPrefixRules(Strip(transcript), 1))

\* ------------------------------------------------------------- input sets
T_Empty == <<>>
T_Blank == <<" ">>
T_Doubt == <<"I"," ","h","a","v","e"," ","a"," ","d","o","u","b","t">>
T_Question == <<"W","h","a","t"," ","i","s"," ","c","h","l","o","r","o","p","h","y","l","l">>
T_Resume == <<"o","k","a","y"," ","t","h","a","n","k","s">>
T_Both == <<"o","k","a","y"," ","i"," ","h","a","v","e"," ","a"," ","d","o","u","b","t">>
T_Explain == <<"e","x","p","l","a","i","n"," ","o","s","m","o","s","i","s">>
T_Broken == <<"b","r","o","k","e","n">>
T_ExplainOnly == <<"e","x","p","l","a","i","n">>

Transcripts ==
  { T_Empty, T_Blank, T_Doubt, T_Question, T_Resume, T_Both, T_Explain,
    T_ExplainOnly, T_Broken }

Speakers == { None, "Alice", "Bob" }

\* phrases the transcripts handed to detect_trigger are made of, each with
\* the trigger list a phrase of it belongs to ("doubtful" holds the single
\* word "doubt" without a word boundary after it)
DetectPhrases ==
  << [ text |-> <<"o","k","a","y">>, kind |-> "resume" ],
     [ text |-> <<"i"," ","h","a","v","e"," ","a"," ","d","o","u","b","t">>, kind |-> "doubt" ],
     [ text |-> <<"d","o","u","b","t","f","u","l">>, kind |-> None ],
     [ text |-> <<"T","h","a","n","k","s">>, kind |-> "resume" ],
     [ text |-> <<"w","h","a","t"," ","i","s"," ","o","s","m","o","s","i","s">>, kind |-> None ],
     [ text |-> <<"Q","u","e","s","t","i","o","n">>, kind |-> "doubt" ] >>

\* phrases the transcripts handed to extract_question are made of, each
\* with the number of the prefix rule that removes it (0: none does)
ExtractPhrases ==
  << [ text |-> <<"I"," ","h","a","v","e"," ","a"," ","d","o","u","b","t">>, rule |-> 1 ],
     [ text |-> <<"p","l","e","a","s","e"," ","e","x","p","l","a","i","n">>, rule |-> 2 ],
     [ text |-> <<"d","o","u","b","t">>, rule |-> 3 ],
     [ text |-> <<"Q","u","e","s","t","i","o","n">>, rule |-> 4 ],
     [ text |-> <<"w","h","a","t"," ","i","s"," ","c","h","l","o","r","o","p","h","y","l","l">>, rule |-> 0 ] >>
\* what separates two phrases of a transcript
Separators == { <<" ">>, <<",", " ">> }

\* the transcripts of up to MaxWords phrases, as sequences of phrase numbers
PhraseLists(n) == UNION { [ 1..k -> 1..n ] : k \in 0..MaxWords }

\* the text of the phrases ws of vocabulary voc, joined by sep
RECURSIVE JoinPhrases(_, _, _)
JoinPhrases(voc, ws, sep) ==
  IF ws = <<>> THEN <<>>
  ELSE IF Len(ws) = 1 THEN voc[ws[1]].text
  ELSE voc[ws[1]].text \o sep \o JoinPhrases(voc, Tail(ws), sep)

\* payloads of the inbound video:context event
VideoContextData ==
  { [url |-> "u1", title |-> "Photosynthesis", topic |-> None, currentTime |-> 5],
    [url |-> "u1", title |-> None, topic |-> "Biology", currentTime |-> 0] }


\* The pure text functions tabulated over the inputs of the model (each
\* entry is the value the operator computes; the tables only avoid
\* recomputing it in every step).
StrippedTranscripts == { Strip(t) : t \in Transcripts }
StripTable == [ t \in Transcripts |-> Strip(t) ]
TriggerTable == [ t \in StrippedTranscripts |-> detect_trigger(t) ]
QuestionTable == [ t \in StrippedTranscripts |-> extract_question(t) ]

\* --------------------------------------------------------------- the state
VARIABLES
  state,                 \* DoubtAssistant.state
  current_speaker,       \* DoubtAssistant._current_speaker
  doubt_start_time,      \* DoubtAssistant._doubt_start_time
  waiting_for_question,  \* DoubtAssistant._waiting_for_question
  video_context,         \* DoubtAssistant.video_context
  connected,             \* DeviceClient._connected
  now,                   \* the wall clock read by datetime.now()/time.time()
  healthy,               \* LocalOllama._healthy
  last_health_check,     \* LocalOllama._last_health_check
  emitted,               \* events the last operation passed to sio.emit
  notified,              \* observer callbacks the last operation invoked
  result,                \* value the last operation returned
  last,                  \* the last operation, its inputs and its pre-state
  local_calls,           \* number of LocalOllama.generate calls so far
  scenario,              \* progress of the doubt / question / resume run
  asked,                 \* questions taken so far in the session under way
  playback,              \* the video commands emitted so far, in brief
  vad_pc,                \* where the VADDetector thread is in run()
  running,               \* VADDetector.running
  stream,                \* the PyAudio input stream of VADDetector.run
  in_speech,             \* run(): in_speech
  speech_start,          \* run(): speech_start
  silence_count,         \* run(): silence_count
  speech_count,          \* run(): speech_count
  audio_buffer,          \* VADDetector._audio_buffer (frames by capture time)
  frames,                \* classification of every frame read so far
  classified,            \* where each frame given to vad.is_speech came from
  segments,              \* arguments of every on_segment call so far, and
                         \* whether the call raised
  handled,               \* on_segment calls that have returned
  stop_called,           \* VADDetector.stop() has been called
  start_result,          \* what start() gave the caller of the detector
  fault,                 \* the exception that ended run(), if any
  thr_pc,                \* per thread: the statement of DoubtAssistant it is at
  thr_local,             \* per thread: the locals of the call it is making
  thr_calls,             \* per thread: calls of the machine it has begun
  wire,                  \* names of the events the threads' calls emitted
  lb_pc,                 \* where the LoopbackCapture thread is in run()
  lb_running,            \* LoopbackCapture.running
  lb_stream,             \* LoopbackCapture._stream
  lb_current_frame,      \* LoopbackCapture._current_frame (by read number)
  lb_reads,              \* frames the loopback thread has read
  lb_fault,              \* what ended LoopbackCapture.run early, if anything
  lb_stop_called,        \* LoopbackCapture.stop() has been called
  aec,                   \* the AcousticEchoCanceller object
  aec_calls,             \* calls of AcousticEchoCanceller.process so far
  runner_vad,            \* ClassroomRunner._vad
  init_vad,              \* the call of ClassroomRunner._init_vad, once made
  classroom,             \* the ClassroomRunner: where start() is, its modules
  wiring,                \* the segments the runner's handler was given
  display_content,       \* ClassroomRunner._display_content
  clear_timers,          \* the threading.Timer threads of _on_ai_response
  cleared,               \* the contents those timers have removed
  on_command,            \* DeviceClient.on_command
  commands,              \* the control:command events received
  acks,                  \* the control:ack events emitted
  stream_camera          \* ClassroomRunner.stream_camera

machine == << state, current_speaker, doubt_start_time, waiting_for_question >>
ollama == << healthy, last_health_check >>
vars == << state, current_speaker, doubt_start_time, waiting_for_question,
           video_context, connected, now, healthy, last_health_check,
           emitted, notified, result, last, local_calls, scenario, asked,
           playback,
           vad_pc, running, stream, in_speech, speech_start, silence_count,
           speech_count, audio_buffer, frames, classified, segments, handled,
           stop_called, start_result, fault, thr_pc, thr_local, thr_calls,
           wire, lb_pc, lb_running, lb_stream, lb_current_frame, lb_reads,
           lb_fault, lb_stop_called, aec, aec_calls, runner_vad,
           init_vad, classroom, wiring, display_content, clear_timers,
           cleared, on_command, commands, acks, stream_camera >>

\* the session machine with its transport, clock and local inference client
session == << state, current_speaker, doubt_start_time, waiting_for_question,
              video_context, connected, now, healthy, last_health_check,
              emitted, notified, result, last, local_calls, scenario, asked,
                    playback >>
\* the locals of VADDetector.run that make up the detector
detector == << in_speech, speech_start, silence_count, speech_count,
               audio_buffer >>
\* the VADDetector thread: its position, flag, stream and history
capture == << vad_pc, running, stream, frames, classified, segments, handled,
             stop_called, start_result, fault >>
\* the threads that call the machine without holding any lock
threads == << thr_pc, thr_local, thr_calls, wire >>
\* the LoopbackCapture thread: its position, flag, stream and frame slot
loopback == << lb_pc, lb_running, lb_stream, lb_current_frame, lb_reads,
              lb_fault, lb_stop_called >>
\* the components next to the machine, the detector and their callers
\* the echo canceller
canceller == << aec, aec_calls >>
\* the runner's handle on the detector
runner == << runner_vad, init_vad, classroom, wiring >>
\* the display and the event handlers of the device client
handlers == << display_content, clear_timers, cleared, on_command, commands,
               acks, stream_camera >>
aside == << loopback, canceller, runner, handlers >>
\* what the operations of the session machine leave alone
outside == << detector, capture, threads, aside >>
\* what the steps of the detector thread leave alone
off_capture == << session, threads, aside >>

\* the fields of the machine as one value (get_state plus the start time)
Snapshot ==
  [ state |-> state,
    current_speaker |-> current_speaker,
    doubt_start_time |-> doubt_start_time,
    waiting_for_question |-> waiting_for_question,
    video_context |-> video_context,
    connected |-> connected,
    healthy |-> healthy,
    local_calls |-> local_calls ]

\* Python's "a or b" on a value that is None or a non-empty string
Or(a, b) == IF a = None THEN b ELSE a

DeviceId == "classroom"

\* No doubt / question / resume run is in progress
NoScenario == [ stage |-> 0, speaker |-> None, sent |-> <<>>, states |-> <<>> ]

\* time.time() at construction: like the epoch clock, it is at least one
\* retry interval past the initial _last_health_check of 0
EpochStart == OLLAMA_RETRY_INTERVAL

\* the thread that delivers transcripts and the transport's inbound-event
\* thread
Threads == { "transcription", "inbound" }
\* the locals of a call: trigger and speaker of on_speech_transcript, and what
\* is_connected() returned to the call
NoLocals == [ trigger |-> None, speaker |-> None, conn |-> FALSE ]

\* before AcousticEchoCanceller.__init__ has run
\* ClassroomRunner.__init__: start() not yet called, no module in place
NewRunner ==
  [ pc |-> "new", client |-> None, stt |-> None, local_ollama |-> None,
    doubt_assistant |-> None ]
NoCanceller ==
  [ constructed |-> FALSE, use_speexdsp |-> FALSE, echo_state |-> FALSE,
    has_reference_buffer |-> FALSE, shifted_in |-> 0 ]

Init ==
  /\ state = STATE_VIDEO_PLAYING
  /\ current_speaker = None
  /\ doubt_start_time = Nothing
  /\ waiting_for_question = FALSE
  /\ video_context = [ url |-> None, title |-> None, topic |-> None,
                       paused_at |-> Nothing, paused_position |-> 0,
                       current_position |-> Nothing ]
  /\ connected = FALSE
  /\ now = EpochStart
  /\ healthy = Nothing
  /\ last_health_check = 0
  /\ emitted = <<>>
  /\ notified = <<>>
  /\ result = [ action |-> "constructed" ]
  /\ last = [ op |-> "init" ]
  /\ local_calls = 0
  /\ scenario = NoScenario
  /\ asked = 0
  /\ playback = [ last |-> "none", alternating |-> TRUE, offline |-> FALSE ]
  /\ vad_pc = "new"
  /\ running = FALSE
  /\ stream = "none"
  /\ in_speech = FALSE
  /\ speech_start = Nothing
  /\ silence_count = 0
  /\ speech_count = 0
  /\ audio_buffer = <<>>
  /\ frames = <<>>
  /\ classified = <<>>
  /\ segments = <<>>
  /\ handled = 0
  /\ stop_called = FALSE
  /\ start_result = "none"
  /\ fault = "none"
  /\ thr_pc = [ t \in Threads |-> "idle" ]
  /\ thr_local = [ t \in Threads |-> NoLocals ]
  /\ thr_calls = [ t \in Threads |-> 0 ]
  /\ wire = <<>>
  /\ lb_pc = "new"
  /\ lb_running = FALSE
  /\ lb_stream = "none"
  /\ lb_current_frame = Nothing
  /\ lb_reads = 0
  /\ lb_fault = "none"
  /\ lb_stop_called = FALSE
  /\ aec = NoCanceller
  /\ aec_calls = 0
  /\ runner_vad = None
  /\ init_vad = Nothing
  /\ classroom = NewRunner
  /\ wiring = [ constructible |-> TRUE, segments |-> 0, heard |-> 0,
                calls |-> 0 ]
  /\ display_content = Nothing
  /\ clear_timers = <<>>
  /\ cleared = {}
  /\ on_command = None
  /\ commands = <<>>
  /\ acks = <<>>
  /\ stream_camera = TRUE


\* ---------------------------------------------- transport events (payloads)
EvPause ==
  [ event |-> "video:pause", deviceId |-> DeviceId, reason |-> "doubt_mode",
    timestamp |-> now ]
EvModeEntered(speaker) ==
  [ event |-> "doubt:mode-entered", deviceId |-> DeviceId, speaker |-> speaker,
    timestamp |-> now ]
EvResume ==
  [ event |-> "video:resume", deviceId |-> DeviceId,
    reason |-> "doubt_resolved", timestamp |-> now ]
EvModeExited ==
  [ event |-> "doubt:mode-exited", deviceId |-> DeviceId, timestamp |-> now ]
EvDoubtQuery(question, speaker, context) ==
  [ event |-> "doubt:query", deviceId |-> DeviceId, question |-> question,
    speaker |-> speaker, context |-> context, timestamp |-> now ]
EvRegister == [ event |-> "device:register", deviceId |-> DeviceId ]

\* (mutant) emit_ai_query sending the query twice
emit_ai_query_Twice(text, speaker, context) ==
  IF ~connected THEN <<>>
  ELSE LET ev == [ event |-> "ai:query", deviceId |-> DeviceId,
                   queryId |-> now, text |-> text,
                   speaker |-> Or(speaker, "Unknown"), context |-> context ]
       IN  << ev, ev >>

\* DeviceClient.emit_ai_query: the events it passes to sio.emit
emit_ai_query(text, speaker, context) ==
  IF ~connected THEN <<>>
  ELSE << [ event |-> "ai:query", deviceId |-> DeviceId, queryId |-> now,
            text |-> text, speaker |-> Or(speaker, "Unknown"),
            context |-> context ] >>

\* DoubtAssistant._build_contextual_query: the parts joined by " "
build_contextual_query(question, context) ==
  ( IF context.video_topic # None
      THEN << <<"[Video Topic: ", context.video_topic, "]">> >>
    ELSE IF context.video_title # None
      THEN << <<"[Video: ", context.video_title, "]">> >>
    ELSE <<>> )
  \o << <<"Student's doubt: ", question>> >>

\* -------------------------------------------- DoubtAssistant: transitions
\* (mutant) entering doubt mode without arming waiting_for_question
enter_doubt_mode_NotWaiting(speaker) ==
  /\ state' = STATE_DOUBT_MODE
  /\ current_speaker' = speaker
  /\ doubt_start_time' = Some(now)
  /\ waiting_for_question' = FALSE
  /\ video_context' = [video_context EXCEPT !.paused_at = Some(now)]
  /\ emitted' = IF connected THEN << EvPause, EvModeEntered(speaker) >> ELSE <<>>
  /\ notified' = << [ callback |-> "on_state_change", state |-> STATE_DOUBT_MODE,
                      data |-> [ speaker |-> speaker ] ] >>
  /\ result' = [ action |-> "entered_doubt_mode", speaker |-> speaker,
                 message |-> "Video paused. Please state your doubt clearly." ]

enter_doubt_mode(speaker) ==
  /\ state' = STATE_DOUBT_MODE
  /\ current_speaker' = speaker
  /\ doubt_start_time' = Some(now)
  /\ waiting_for_question' = TRUE
  /\ video_context' = [video_context EXCEPT !.paused_at = Some(now)]
  /\ emitted' = IF connected THEN << EvPause, EvModeEntered(speaker) >> ELSE <<>>
  /\ notified' = << [ callback |-> "on_state_change", state |-> STATE_DOUBT_MODE,
                      data |-> [ speaker |-> speaker ] ] >>
  /\ result' = [ action |-> "entered_doubt_mode", speaker |-> speaker,
                 message |-> "Video paused. Please state your doubt clearly." ]

\* (mutant) leaving doubt mode without the resume command
exit_doubt_mode_NoResume ==
  /\ state' = STATE_VIDEO_PLAYING
  /\ waiting_for_question' = FALSE
  /\ emitted' = IF connected THEN << EvModeExited >> ELSE <<>>
  /\ notified' = << [ callback |-> "on_state_change",
                      state |-> STATE_VIDEO_PLAYING, data |-> <<>> ] >>
  /\ current_speaker' = None
  /\ doubt_start_time' = Nothing
  /\ result' = [ action |-> "exited_doubt_mode", speaker |-> current_speaker,
                 message |-> "Resuming video playback." ]
  /\ UNCHANGED video_context

\* (mutant) leaving doubt mode without resetting the session speaker
exit_doubt_mode_KeepsSpeaker ==
  /\ state' = STATE_VIDEO_PLAYING
  /\ waiting_for_question' = FALSE
  /\ emitted' = IF connected THEN << EvResume, EvModeExited >> ELSE <<>>
  /\ notified' = << [ callback |-> "on_state_change",
                      state |-> STATE_VIDEO_PLAYING, data |-> <<>> ] >>
  /\ doubt_start_time' = Nothing
  /\ result' = [ action |-> "exited_doubt_mode", speaker |-> current_speaker,
                 message |-> "Resuming video playback." ]
  /\ UNCHANGED << current_speaker, video_context >>

exit_doubt_mode ==
  /\ state' = STATE_VIDEO_PLAYING
  /\ waiting_for_question' = FALSE
  /\ emitted' = IF connected THEN << EvResume, EvModeExited >> ELSE <<>>
  /\ notified' = << [ callback |-> "on_state_change",
                      state |-> STATE_VIDEO_PLAYING, data |-> <<>> ] >>
  /\ current_speaker' = None
  /\ doubt_start_time' = Nothing
  /\ result' = [ action |-> "exited_doubt_mode", speaker |-> current_speaker,
                 message |-> "Resuming video playback." ]
  /\ UNCHANGED video_context

\* (mutant) taking the question without clearing waiting_for_question
process_doubt_KeepsWaiting(doubt_text, speaker) ==
  LET extracted == QuestionTable[doubt_text]
      question == IF extracted = <<>> THEN doubt_text ELSE extracted
      context == [ video_title |-> video_context.title,
                   video_topic |-> video_context.topic,
                   video_url |-> video_context.url ]
  IN  /\ UNCHANGED waiting_for_question
      /\ emitted' =
           IF connected
           THEN << EvDoubtQuery(question,
                                Or(speaker, Or(current_speaker, "Student")),
                                context) >>
                \o emit_ai_query(build_contextual_query(question, context),
                                 Or(speaker, current_speaker), context)
           ELSE <<>>
      /\ notified' = << [ callback |-> "on_doubt_processed",
                          question |-> question,
                          speaker |-> Or(speaker, current_speaker) ] >>
      /\ result' = [ action |-> "doubt_processed", question |-> question,
                     speaker |-> Or(speaker, current_speaker),
                     context |-> context ]
      /\ UNCHANGED << state, current_speaker, doubt_start_time, video_context >>

\* (mutant) dispatching the transcript as heard, without extract_question
process_doubt_RawText(doubt_text, speaker) ==
  LET question == doubt_text
      context == [ video_title |-> video_context.title,
                   video_topic |-> video_context.topic,
                   video_url |-> video_context.url ]
  IN  /\ waiting_for_question' = FALSE
      /\ emitted' =
           IF connected
           THEN << EvDoubtQuery(question,
                                Or(speaker, Or(current_speaker, "Student")),
                                context) >>
                \o emit_ai_query(build_contextual_query(question, context),
                                 Or(speaker, current_speaker), context)
           ELSE <<>>
      /\ notified' = << [ callback |-> "on_doubt_processed",
                          question |-> question,
                          speaker |-> Or(speaker, current_speaker) ] >>
      /\ result' = [ action |-> "doubt_processed", question |-> question,
                     speaker |-> Or(speaker, current_speaker),
                     context |-> context ]
      /\ UNCHANGED << state, current_speaker, doubt_start_time, video_context >>

process_doubt(doubt_text, speaker) ==
  LET extracted == QuestionTable[doubt_text]
      question == IF extracted = <<>> THEN doubt_text ELSE extracted
      context == [ video_title |-> video_context.title,
                   video_topic |-> video_context.topic,
                   video_url |-> video_context.url ]
  IN  /\ waiting_for_question' = FALSE
      /\ emitted' =
           IF connected
           THEN << EvDoubtQuery(question,
                                Or(speaker, Or(current_speaker, "Student")),
                                context) >>
                \o emit_ai_query(build_contextual_query(question, context),
                                 Or(speaker, current_speaker), context)
           ELSE <<>>
      /\ notified' = << [ callback |-> "on_doubt_processed",
                          question |-> question,
                          speaker |-> Or(speaker, current_speaker) ] >>
      /\ result' = [ action |-> "doubt_processed", question |-> question,
                     speaker |-> Or(speaker, current_speaker),
                     context |-> context ]
      /\ UNCHANGED << state, current_speaker, doubt_start_time, video_context >>

\* a return that touches nothing
no_transition(res) ==
  /\ emitted' = <<>>
  /\ notified' = <<>>
  /\ result' = res
  /\ UNCHANGED << state, current_speaker, doubt_start_time,
                  waiting_for_question, video_context >>

\* (mutant) while waiting for the question every transcript that is not a
\* doubt trigger is taken as the question, a resume phrase included
on_speech_transcript_WaitingFirst(transcript, speaker) ==
  IF transcript = <<>> THEN no_transition([ action |-> "no_transcript" ])
  ELSE LET text == StripTable[transcript]
           trigger == TriggerTable[text]
       IN  IF state = STATE_VIDEO_PLAYING /\ trigger = "doubt"
             THEN enter_doubt_mode(speaker)
           ELSE IF state = STATE_DOUBT_MODE /\ waiting_for_question
                   /\ trigger # "doubt"
             THEN process_doubt(text, speaker)
           ELSE IF state = STATE_DOUBT_MODE /\ trigger = "resume"
             THEN exit_doubt_mode
           ELSE IF state = STATE_DOUBT_MODE /\ trigger = "doubt"
             THEN no_transition([ action |-> "already_in_doubt_mode" ])
           ELSE no_transition([ action |-> "no_action", transcript |-> text ])

\* (mutant) while waiting, a doubt trigger is taken as the question
on_speech_transcript_DoubtAsQuestion(transcript, speaker) ==
  IF transcript = <<>> THEN no_transition([ action |-> "no_transcript" ])
  ELSE LET text == StripTable[transcript]
           trigger == TriggerTable[text]
       IN  IF state = STATE_VIDEO_PLAYING /\ trigger = "doubt"
             THEN enter_doubt_mode(speaker)
           ELSE IF state = STATE_DOUBT_MODE /\ trigger = "resume"
             THEN exit_doubt_mode
           ELSE IF state = STATE_DOUBT_MODE /\ waiting_for_question
             THEN process_doubt(text, speaker)
           ELSE IF state = STATE_DOUBT_MODE /\ trigger = "doubt"
             THEN no_transition([ action |-> "already_in_doubt_mode" ])
           ELSE no_transition([ action |-> "no_action", transcript |-> text ])

\* (mutant) a doubt trigger starts a session whatever the state
on_speech_transcript_Rearm(transcript, speaker) ==
  IF transcript = <<>> THEN no_transition([ action |-> "no_transcript" ])
  ELSE LET text == StripTable[transcript]
           trigger == TriggerTable[text]
       IN  IF trigger = "doubt"
             THEN enter_doubt_mode(speaker)
           ELSE IF state = STATE_DOUBT_MODE /\ trigger = "resume"
             THEN exit_doubt_mode
           ELSE IF state = STATE_DOUBT_MODE /\ waiting_for_question
                   /\ trigger = None
             THEN process_doubt(text, speaker)
           ELSE no_transition([ action |-> "no_action", transcript |-> text ])

\* (mutant) a resume trigger runs the exit transition whatever the state
on_speech_transcript_ResumeAnywhere(transcript, speaker) ==
  IF transcript = <<>> THEN no_transition([ action |-> "no_transcript" ])
  ELSE LET text == StripTable[transcript]
           trigger == TriggerTable[text]
       IN  IF state = STATE_VIDEO_PLAYING /\ trigger = "doubt"
             THEN enter_doubt_mode(speaker)
           ELSE IF trigger = "resume"
             THEN exit_doubt_mode
           ELSE IF state = STATE_DOUBT_MODE /\ waiting_for_question
                   /\ trigger = None
             THEN process_doubt(text, speaker)
           ELSE IF state = STATE_DOUBT_MODE /\ trigger = "doubt"
             THEN no_transition([ action |-> "already_in_doubt_mode" ])
           ELSE no_transition([ action |-> "no_action", transcript |-> text ])

on_speech_transcript(transcript, speaker) ==
  IF transcript = <<>> THEN no_transition([ action |-> "no_transcript" ])
  ELSE LET text == StripTable[transcript]
           trigger == TriggerTable[text]
       IN  IF state = STATE_VIDEO_PLAYING /\ trigger = "doubt"
             THEN enter_doubt_mode(speaker)
           ELSE IF state = STATE_DOUBT_MODE /\ trigger = "resume"
             THEN exit_doubt_mode
           ELSE IF state = STATE_DOUBT_MODE /\ waiting_for_question
                   /\ trigger = None
             THEN process_doubt(text, speaker)
           ELSE IF state = STATE_DOUBT_MODE /\ trigger = "doubt"
             THEN no_transition([ action |-> "already_in_doubt_mode" ])
           ELSE no_transition([ action |-> "no_action", transcript |-> text ])

\* (mutant) a forced exit that leaves the session speaker in place
force_exit_doubt_mode_KeepsSession ==
  IF state = STATE_DOUBT_MODE THEN exit_doubt_mode_KeepsSpeaker
  ELSE no_transition([ action |-> "not_in_doubt_mode" ])

\* (mutant) a forced exit that runs the exit transition whatever the state
force_exit_doubt_mode_Always == exit_doubt_mode

force_exit_doubt_mode ==
  IF state = STATE_DOUBT_MODE THEN exit_doubt_mode
  ELSE no_transition([ action |-> "not_in_doubt_mode" ])

\* ------------------------- transitions in which a collaborator raises
\* DoubtAssistant calls sio.emit, emit_ai_query and its observer callbacks
\* with no try/except around them: an exception of the first emission, of
\* the second emission or of the callback leaves the transition at that
\* statement and the public operation at once.
FaultPoints == { "emit_1", "emit_2", "callback" }
EmitFaults == { "emit_1", "emit_2" }
\* the emissions of sent that went out before the statement that raised
SentBefore(sent, point) ==
  IF point = "emit_1" THEN <<>>
  ELSE IF point = "emit_2" THEN SubSeq(sent, 1, 1)
  ELSE sent
\* the exception reaching the caller of the public operation
Raised(point) == [ action |-> "raised", at |-> point ]

\* _enter_doubt_mode when the statement at point raises
enter_doubt_mode_raising(speaker, point) ==
  /\ point \in EmitFaults => connected
  /\ state' = STATE_DOUBT_MODE
  /\ current_speaker' = speaker
  /\ doubt_start_time' = Some(now)
  /\ waiting_for_question' = TRUE
  /\ video_context' = [video_context EXCEPT !.paused_at = Some(now)]
  /\ emitted' = IF connected
                THEN SentBefore(<< EvPause, EvModeEntered(speaker) >>, point)
                ELSE <<>>
  /\ notified' = IF point = "callback"
                 THEN << [ callback |-> "on_state_change",
                           state |-> STATE_DOUBT_MODE,
                           data |-> [ speaker |-> speaker ] ] >>
                 ELSE <<>>
  /\ result' = Raised(point)

\* _exit_doubt_mode when the statement at point raises: the session reset
\* of lines 196-198 is not reached
exit_doubt_mode_raising(point) ==
  /\ point \in EmitFaults => connected
  /\ state' = STATE_VIDEO_PLAYING
  /\ waiting_for_question' = FALSE
  /\ emitted' = IF connected
                THEN SentBefore(<< EvResume, EvModeExited >>, point)
                ELSE <<>>
  /\ notified' = IF point = "callback"
                 THEN << [ callback |-> "on_state_change",
                           state |-> STATE_VIDEO_PLAYING, data |-> <<>> ] >>
                 ELSE <<>>
  /\ result' = Raised(point)
  /\ UNCHANGED << current_speaker, doubt_start_time, video_context >>

\* _process_doubt when the statement at point raises
process_doubt_raising(doubt_text, speaker, point) ==
  LET extracted == QuestionTable[doubt_text]
      question == IF extracted = <<>> THEN doubt_text ELSE extracted
      context == [ video_title |-> video_context.title,
                   video_topic |-> video_context.topic,
                   video_url |-> video_context.url ]
  IN  /\ point \in EmitFaults => connected
      /\ waiting_for_question' = FALSE
      /\ emitted' =
           IF connected
           THEN SentBefore(
                  << EvDoubtQuery(question,
                                  Or(speaker, Or(current_speaker, "Student")),
                                  context) >>
                  \o emit_ai_query(build_contextual_query(question, context),
                                   Or(speaker, current_speaker), context),
                  point)
           ELSE <<>>
      /\ notified' = IF point = "callback"
                     THEN << [ callback |-> "on_doubt_processed",
                               question |-> question,
                               speaker |-> Or(speaker, current_speaker) ] >>
                     ELSE <<>>
      /\ result' = Raised(point)
      /\ UNCHANGED << state, current_speaker, doubt_start_time, video_context >>

\* on_speech_transcript when a statement of the transition it runs raises
\* (the returns that run no transition call no collaborator)
on_speech_transcript_raising(transcript, speaker, point) ==
  /\ transcript # <<>>
  /\ LET text == StripTable[transcript]
         trigger == TriggerTable[text]
     IN  IF state = STATE_VIDEO_PLAYING /\ trigger = "doubt"
           THEN enter_doubt_mode_raising(speaker, point)
         ELSE IF state = STATE_DOUBT_MODE /\ trigger = "resume"
           THEN exit_doubt_mode_raising(point)
         ELSE IF state = STATE_DOUBT_MODE /\ waiting_for_question
                 /\ trigger = None
           THEN process_doubt_raising(text, speaker, point)
         ELSE FALSE

\* force_exit_doubt_mode when a statement of the exit transition raises
force_exit_doubt_mode_raising(point) ==
  /\ state = STATE_DOUBT_MODE
  /\ exit_doubt_mode_raising(point)

\* The run of the test scenarios: a doubt trigger in VIDEO_PLAYING, then a
\* trigger-free question, then a resume trigger, fed one after the other by
\* one speaker while the transport is connected.  Stage k holds after the
\* k-th of them; any other call to the machine abandons the run.
ScenarioStep(transcript, speaker) ==
  LET text == StripTable[transcript]
      trigger == TriggerTable[text]
      grown == [ scenario EXCEPT !.stage = @ + 1,
                                 !.sent = @ \o emitted',
                                 !.states = Append(@, state') ]
  IN  IF connected /\ state = STATE_VIDEO_PLAYING /\ trigger = "doubt"
        THEN [ stage |-> 1, speaker |-> speaker, sent |-> emitted',
               states |-> << state' >> ]
      ELSE IF /\ connected /\ scenario.stage = 1 /\ speaker = scenario.speaker
              /\ text # <<>> /\ trigger = None
        THEN grown
      ELSE IF /\ connected /\ scenario.stage = 2 /\ speaker = scenario.speaker
              /\ trigger = "resume"
        THEN grown
      ELSE NoScenario

\* The questions of a session: an operation takes a question when it returns
\* doubt_processed or sends doubt:query; the count starts again whenever the
\* state changes.
QuestionTaken ==
  \/ result'.action = "doubt_processed"
  \/ \E i \in 1..Len(emitted') : emitted'[i].event = "doubt:query"
AskedNext ==
  IF state' # state THEN 0
  ELSE IF QuestionTaken THEN asked + 1
  ELSE asked

\* The video commands: which of video:pause and video:resume was emitted
\* last, whether the two have alternated so far starting with a pause, and
\* whether the machine has changed state while the transport was down.
Emits(name) == \E i \in 1..Len(emitted') : emitted'[i].event = name
PlaybackNext ==
  [ last |-> IF Emits("video:resume") THEN "resume"
             ELSE IF Emits("video:pause") THEN "pause"
             ELSE playback.last,
    alternating |->
      /\ playback.alternating
      /\ Emits("video:pause") => playback.last # "pause"
      /\ Emits("video:resume") => playback.last = "pause"
      /\ ~(Emits("video:pause") /\ Emits("video:resume")),
    offline |-> playback.offline \/ (state' # state /\ ~connected) ]

\* ------------------------------------------------------------- the actions
OnSpeechTranscript ==
  \E transcript \in Transcripts, speaker \in Speakers :
    /\ on_speech_transcript(transcript, speaker)
    /\ last' = [ op |-> "on_speech_transcript", transcript |-> transcript,
                 speaker |-> speaker,
                 trigger |-> TriggerTable[StripTable[transcript]],
                 pre |-> Snapshot, at |-> now ]
    /\ scenario' = ScenarioStep(transcript, speaker)
    /\ asked' = AskedNext
    /\ playback' = PlaybackNext
    /\ UNCHANGED << connected, now, ollama, local_calls >>
    /\ UNCHANGED outside

ForceExitDoubtMode ==
  /\ force_exit_doubt_mode
  /\ last' = [ op |-> "force_exit_doubt_mode", pre |-> Snapshot,
                 again |-> last.op = "force_exit_doubt_mode", at |-> now ]
  /\ scenario' = NoScenario
  /\ asked' = AskedNext
  /\ playback' = PlaybackNext
  /\ UNCHANGED << connected, now, ollama, local_calls >>
  /\ UNCHANGED outside

\* on_speech_transcript in which an emission or a callback raises
OnSpeechTranscriptRaises ==
  \E transcript \in Transcripts, speaker \in Speakers, point \in FaultPoints :
    /\ on_speech_transcript_raising(transcript, speaker, point)
    /\ last' = [ op |-> "on_speech_transcript_raises",
                 transcript |-> transcript, speaker |-> speaker,
                 trigger |-> TriggerTable[StripTable[transcript]],
                 point |-> point, pre |-> Snapshot, at |-> now ]
    /\ scenario' = NoScenario
    /\ asked' = AskedNext
    /\ playback' = PlaybackNext
    /\ UNCHANGED << connected, now, ollama, local_calls >>
    /\ UNCHANGED outside

\* force_exit_doubt_mode in which an emission or a callback raises
ForceExitDoubtModeRaises ==
  \E point \in FaultPoints :
    /\ force_exit_doubt_mode_raising(point)
    /\ last' = [ op |-> "force_exit_doubt_mode_raises", point |-> point,
                 pre |-> Snapshot, at |-> now ]
    /\ scenario' = NoScenario
    /\ asked' = AskedNext
    /\ playback' = PlaybackNext
    /\ UNCHANGED << connected, now, ollama, local_calls >>
    /\ UNCHANGED outside

\* a call of TriggerDetector.detect_trigger (the detector keeps no state
\* between calls: one call on a fresh detector per behaviour)
DetectTrigger ==
  \E ws \in PhraseLists(Len(DetectPhrases)) :
    /\ last.op = "init"
    /\ last' = [ op |-> "detect_trigger", words |-> ws,
                 transcript |-> JoinPhrases(DetectPhrases, ws, <<" ">>) ]
    /\ result' = [ trigger |->
                     detect_trigger(JoinPhrases(DetectPhrases, ws, <<" ">>)) ]
    /\ UNCHANGED << machine, video_context, connected, now, ollama, emitted,
                    notified, local_calls, scenario, asked,
                    playback >>
    /\ UNCHANGED outside

\* a call of TriggerDetector.extract_question (one call per behaviour)
ExtractQuestion ==
  \E ws \in PhraseLists(Len(ExtractPhrases)), sep \in Separators :
    /\ last.op = "init"
    /\ last' = [ op |-> "extract_question", words |-> ws, sep |-> sep,
                 transcript |-> JoinPhrases(ExtractPhrases, ws, sep) ]
    /\ result' = [ question |->
                     extract_question(JoinPhrases(ExtractPhrases, ws, sep)) ]
    /\ UNCHANGED << machine, video_context, connected, now, ollama, emitted,
                    notified, local_calls, scenario, asked,
                    playback >>
    /\ UNCHANGED outside

\* the video:context handler registered by _setup_socket_handlers
OnVideoContext ==
  \E data \in VideoContextData :
    /\ video_context' = [ video_context EXCEPT
                            !.url = data.url, !.title = data.title,
                            !.topic = data.topic,
                            !.current_position = Some(data.currentTime) ]
    /\ emitted' = <<>>
    /\ notified' = <<>>
    /\ result' = [ action |-> "none" ]
    /\ last' = [ op |-> "on_video_context", pre |-> Snapshot ]
    /\ UNCHANGED << machine, connected, now, ollama, local_calls, scenario, asked,
                    playback >>
    /\ UNCHANGED outside

\* the connect handler of DeviceClient._setup_handlers
Connect ==
  /\ ~connected
  /\ connected' = TRUE
  /\ emitted' = << EvRegister >>
  /\ notified' = <<>>
  /\ result' = [ action |-> "none" ]
  /\ last' = [ op |-> "connect", pre |-> Snapshot ]
  /\ scenario' = NoScenario
  /\ UNCHANGED << asked, playback >>
  /\ UNCHANGED << machine, video_context, now, ollama, local_calls >>
  /\ UNCHANGED outside

\* the disconnect handler of DeviceClient._setup_handlers
Disconnect ==
  /\ connected
  /\ connected' = FALSE
  /\ emitted' = <<>>
  /\ notified' = <<>>
  /\ result' = [ action |-> "none" ]
  /\ last' = [ op |-> "disconnect", pre |-> Snapshot ]
  /\ scenario' = NoScenario
  /\ UNCHANGED << asked, playback >>
  /\ UNCHANGED << machine, video_context, now, ollama, local_calls >>
  /\ UNCHANGED outside

\* the passage of wall-clock time
Tick ==
  /\ now + TickStep <= EpochStart + MaxTicks * TickStep
  /\ now' = now + TickStep
  /\ UNCHANGED << machine, video_context, connected, ollama, emitted,
                  notified, result, last, local_calls, scenario, asked,
                    playback >>
  /\ UNCHANGED outside


\* ------------------------------------------------------------ LocalOllama
\* what GET /api/tags can do: answer 2xx, answer an error status, or fail
ProbeOutcomes == { "ok", "not_ok", "exception" }
\* what POST /api/generate can do
GenerateOutcomes == { "ok", "http_error", "empty", "timeout", "conn_error" }

\* (mutant) a cached value that never expires
HealthCached_NoExpiry(force) ==
  /\ ~force
  /\ healthy # Nothing

\* check_health returns the cached value without probing
HealthCached(force) ==
  /\ ~force
  /\ healthy # Nothing
  /\ now - last_health_check < OLLAMA_RETRY_INTERVAL

check_health(force, outcome) ==
  IF HealthCached(force)
  THEN /\ result' = [ action |-> "check_health", value |-> healthy[1],
                      probed |-> FALSE ]
       /\ UNCHANGED << healthy, last_health_check >>
  ELSE /\ healthy' = Some(outcome = "ok")
       /\ last_health_check' = now
       /\ result' = [ action |-> "check_health", value |-> (outcome = "ok"),
                      probed |-> TRUE ]

generate(outcome) ==
  /\ healthy' = IF outcome = "ok" THEN Some(TRUE)
                ELSE IF outcome = "empty" THEN healthy
                ELSE Some(FALSE)
  /\ result' = [ action |-> "generate", success |-> (outcome = "ok"),
                 source |-> "local-ollama" ]
  /\ UNCHANGED last_health_check

CheckHealth ==
  \E force \in BOOLEAN, outcome \in ProbeOutcomes :
    /\ check_health(force, outcome)
    /\ emitted' = <<>>
    /\ notified' = <<>>
    /\ last' = [ op |-> "check_health", force |-> force, pre |-> Snapshot,
                 pre_last_health_check |-> last_health_check,
                 probe |-> IF HealthCached(force) THEN "none" ELSE outcome,
                 at |-> now ]
    /\ UNCHANGED << machine, video_context, connected, now, local_calls,
                    scenario, asked,
                    playback >>
    /\ UNCHANGED outside

Generate ==
  \E outcome \in GenerateOutcomes :
    /\ local_calls < MaxCalls
    /\ generate(outcome)
    /\ local_calls' = local_calls + 1
    /\ emitted' = <<>>
    /\ notified' = <<>>
    /\ last' = [ op |-> "generate", outcome |-> outcome, pre |-> Snapshot,
                 pre_last_health_check |-> last_health_check, at |-> now ]
    /\ UNCHANGED << machine, video_context, connected, now, scenario, asked,
                    playback >>
    /\ UNCHANGED outside


\* ------------------------------------------ ClassroomRunner: speech segments
\* what SpeechToText.transcribe can do with a segment: return the text
\* Whisper heard, fail with an exception, or have no model loaded
STTOutcomes == { "text", "error", "no_model" }
\* the speaker the runner attaches to a segment: "Unknown" or a visible face
SegmentSpeakers == { "Unknown", "Alice" }

\* SpeechToText.transcribe: the stripped text, "" on failure
transcribe(outcome, heard) ==
  IF outcome = "text" THEN StripTable[heard] ELSE <<>>

\* (mutant) a handler that passes every transcript on, empty ones included
on_speech_segment_Unguarded(transcript, speaker) ==
  on_speech_transcript(transcript, speaker)

\* ClassroomRunner._on_speech_segment once transcribe has returned, with the
\* transcriber and the doubt assistant in place and audio buffered
on_speech_segment(transcript, speaker) ==
  IF transcript # <<>>
  THEN on_speech_transcript(transcript, speaker)
  ELSE /\ emitted' = <<>>
       /\ notified' = <<>>
       /\ result' = [ action |-> "none" ]
       /\ UNCHANGED << machine, video_context >>

\* the handler called with a segment (by whoever detected it)
OnSpeechSegment ==
  \E outcome \in STTOutcomes, heard \in Transcripts,
     speaker \in SegmentSpeakers :
    /\ outcome = "text" \/ heard = T_Empty
    /\ on_speech_segment(transcribe(outcome, heard), speaker)
    /\ last' = [ op |-> "on_speech_segment", outcome |-> outcome,
                 transcript |-> transcribe(outcome, heard),
                 speaker |-> speaker,
                 called |-> transcribe(outcome, heard) # <<>>,
                 pre |-> Snapshot, at |-> now ]
    /\ scenario' = NoScenario
    /\ asked' = AskedNext
    /\ playback' = PlaybackNext
    /\ UNCHANGED << connected, now, ollama, local_calls >>
    /\ UNCHANGED outside

\* ------------------------------------------------------------ VADDetector
\* buffer_audio as the runner passes it (and the default)
buffer_audio == TRUE

\* the time at which the frame being read is read, in frame durations
FrameTime == Len(frames) + 1

\* (mutant) a detector that starts a segment on the first speech frame
vad_frame_NoDebounce(is_speech) ==
  LET t == FrameTime
  IN  /\ frames' = Append(frames, is_speech)
      /\ classified' = Append(classified, "stream.read")
      /\ IF is_speech
         THEN /\ speech_count' = speech_count + 1
              /\ silence_count' = 0
              /\ audio_buffer' = IF buffer_audio THEN Append(audio_buffer, t)
                                 ELSE audio_buffer
              /\ IF ~in_speech /\ speech_count + 1 >= 1
                 THEN in_speech' = TRUE /\ speech_start' = Some(t)
                 ELSE UNCHANGED << in_speech, speech_start >>
              /\ UNCHANGED << segments, vad_pc >>
         ELSE LET silences == silence_count + 1
                  buffered ==
                    IF buffer_audio /\ in_speech
                       /\ silences <= SILENCE_END_FRAMES
                    THEN Append(audio_buffer, t) ELSE audio_buffer
              IN  /\ silence_count' = silences
                  /\ speech_count' = 0
                  /\ IF in_speech /\ silences >= SILENCE_END_FRAMES
                     THEN /\ segments' = Append(segments,
                               [ start |-> speech_start[1], end |-> t,
                                 audio |-> IF buffer_audio THEN buffered
                                           ELSE None,
                                 raised |-> FALSE ])
                          /\ audio_buffer' = <<>>
                          /\ vad_pc' = "on_segment"
                     ELSE /\ audio_buffer' = buffered
                          /\ UNCHANGED << segments, vad_pc >>
                  /\ UNCHANGED << in_speech, speech_start >>

\* (mutant) a detector that ends a segment on the first silence frame
vad_frame_NoHangover(is_speech) ==
  LET t == FrameTime
  IN  /\ frames' = Append(frames, is_speech)
      /\ classified' = Append(classified, "stream.read")
      /\ IF is_speech
         THEN /\ speech_count' = speech_count + 1
              /\ silence_count' = 0
              /\ audio_buffer' = IF buffer_audio THEN Append(audio_buffer, t)
                                 ELSE audio_buffer
              /\ IF ~in_speech /\ speech_count + 1 >= SPEECH_START_FRAMES
                 THEN in_speech' = TRUE /\ speech_start' = Some(t)
                 ELSE UNCHANGED << in_speech, speech_start >>
              /\ UNCHANGED << segments, vad_pc >>
         ELSE LET silences == silence_count + 1
                  buffered ==
                    IF buffer_audio /\ in_speech
                       /\ silences <= SILENCE_END_FRAMES
                    THEN Append(audio_buffer, t) ELSE audio_buffer
              IN  /\ silence_count' = silences
                  /\ speech_count' = 0
                  /\ IF in_speech /\ silences >= 1
                     THEN /\ segments' = Append(segments,
                               [ start |-> speech_start[1], end |-> t,
                                 audio |-> IF buffer_audio THEN buffered
                                           ELSE None,
                                 raised |-> FALSE ])
                          /\ audio_buffer' = <<>>
                          /\ vad_pc' = "on_segment"
                     ELSE /\ audio_buffer' = buffered
                          /\ UNCHANGED << segments, vad_pc >>
                  /\ UNCHANGED << in_speech, speech_start >>

\* (mutant) on_segment called with the two times exchanged
vad_frame_Exchanged(is_speech) ==
  LET t == FrameTime
  IN  /\ frames' = Append(frames, is_speech)
      /\ classified' = Append(classified, "stream.read")
      /\ IF is_speech
         THEN /\ speech_count' = speech_count + 1
              /\ silence_count' = 0
              /\ audio_buffer' = IF buffer_audio THEN Append(audio_buffer, t)
                                 ELSE audio_buffer
              /\ IF ~in_speech /\ speech_count + 1 >= SPEECH_START_FRAMES
                 THEN in_speech' = TRUE /\ speech_start' = Some(t)
                 ELSE UNCHANGED << in_speech, speech_start >>
              /\ UNCHANGED << segments, vad_pc >>
         ELSE LET silences == silence_count + 1
                  buffered ==
                    IF buffer_audio /\ in_speech
                       /\ silences <= SILENCE_END_FRAMES
                    THEN Append(audio_buffer, t) ELSE audio_buffer
              IN  /\ silence_count' = silences
                  /\ speech_count' = 0
                  /\ IF in_speech /\ silences >= SILENCE_END_FRAMES
                     THEN /\ segments' = Append(segments,
                               [ start |-> t, end |-> speech_start[1],
                                 audio |-> IF buffer_audio THEN buffered
                                           ELSE None,
                                 raised |-> FALSE ])
                          /\ audio_buffer' = <<>>
                          /\ vad_pc' = "on_segment"
                     ELSE /\ audio_buffer' = buffered
                          /\ UNCHANGED << segments, vad_pc >>
                  /\ UNCHANGED << in_speech, speech_start >>

\* one pass of the loop body of VADDetector.run on a frame classified
\* is_speech, up to the call of on_segment
vad_frame(is_speech) ==
  LET t == FrameTime
  IN  /\ frames' = Append(frames, is_speech)
      /\ classified' = Append(classified, "stream.read")
      /\ IF is_speech
         THEN /\ speech_count' = speech_count + 1
              /\ silence_count' = 0
              /\ audio_buffer' = IF buffer_audio THEN Append(audio_buffer, t)
                                 ELSE audio_buffer
              /\ IF ~in_speech /\ speech_count + 1 >= SPEECH_START_FRAMES
                 THEN in_speech' = TRUE /\ speech_start' = Some(t)
                 ELSE UNCHANGED << in_speech, speech_start >>
              /\ UNCHANGED << segments, vad_pc >>
         ELSE LET silences == silence_count + 1
                  buffered ==
                    IF buffer_audio /\ in_speech
                       /\ silences <= SILENCE_END_FRAMES
                    THEN Append(audio_buffer, t) ELSE audio_buffer
              IN  /\ silence_count' = silences
                  /\ speech_count' = 0
                  /\ IF in_speech /\ silences >= SILENCE_END_FRAMES
                     THEN /\ segments' = Append(segments,
                               [ start |-> speech_start[1], end |-> t,
                                 audio |-> IF buffer_audio THEN buffered
                                           ELSE None,
                                 raised |-> FALSE ])
                          /\ audio_buffer' = <<>>
                          /\ vad_pc' = "on_segment"
                     ELSE /\ audio_buffer' = buffered
                          /\ UNCHANGED << segments, vad_pc >>
                  /\ UNCHANGED << in_speech, speech_start >>

\* Thread.start() on the detector: run() begins on its own thread and
\* start() returns to its caller without waiting for anything run() does
VadStart ==
  /\ vad_pc = "new"
  /\ vad_pc' = "open"
  /\ start_result' = "started"
  /\ UNCHANGED << running, stream, frames, classified, segments, handled, stop_called,
                  fault >>
  /\ UNCHANGED << detector, off_capture >>

\* run(): self.audio.open(...) succeeds, or raises: the exception is caught
\* and printed, and run() returns
VadOpen ==
  \E opened \in BOOLEAN :
    /\ vad_pc = "open"
    /\ IF opened
       THEN stream' = "open" /\ vad_pc' = "set_running" /\ fault' = fault
       ELSE stream' = stream /\ vad_pc' = "done" /\ fault' = "open_failed"
    /\ UNCHANGED << running, frames, classified, segments, handled, stop_called,
                    start_result >>
    /\ UNCHANGED << detector, off_capture >>

\* run(): self.running = True and the locals of the loop are initialised
VadSetRunning ==
  /\ vad_pc = "set_running"
  /\ running' = TRUE
  /\ in_speech' = FALSE
  /\ speech_start' = Nothing
  /\ silence_count' = 0
  /\ speech_count' = 0
  /\ audio_buffer' = <<>>
  /\ vad_pc' = "loop"
  /\ UNCHANGED << stream, frames, classified, segments, handled, stop_called,
                  start_result, fault >>
  /\ UNCHANGED off_capture

\* run(): one test of `while self.running`, and, when it passes, the read
\* of one frame and, when the read returns, its classification and the loop
\* body for it. An exception of stream.read is caught nowhere in run(): it
\* leaves the loop through the finally block and ends the thread.
VadIterate ==
  /\ vad_pc = "loop"
  /\ IF running
     THEN /\ Len(frames) < MaxFrames
          /\ \E read_ok \in BOOLEAN :
               IF read_ok
               THEN /\ \E is_speech \in BOOLEAN : vad_frame(is_speech)
                    /\ fault' = fault
               ELSE /\ vad_pc' = "finally"
                    /\ fault' = "read_failed"
                    /\ UNCHANGED << frames, classified, segments, detector >>
          /\ UNCHANGED << running, stream, handled, stop_called,
                          start_result >>
     ELSE /\ vad_pc' = "finally"
          /\ UNCHANGED << running, stream, frames, classified, segments, handled,
                          stop_called, start_result, fault, detector >>
  /\ UNCHANGED off_capture

\* run(): on_segment, that is ClassroomRunner._on_speech_segment, returns on
\* the detector's thread (whatever it raises is caught), and the detector
\* goes back to silence
VadSegmentHandled ==
  \E outcome \in STTOutcomes, heard \in Transcripts,
     speaker \in SegmentSpeakers :
    /\ vad_pc = "on_segment"
    /\ outcome = "text" \/ heard = T_Empty
    /\ on_speech_segment(transcribe(outcome, heard), speaker)
    /\ last' = [ op |-> "on_speech_segment", outcome |-> outcome,
                 transcript |-> transcribe(outcome, heard),
                 speaker |-> speaker,
                 called |-> transcribe(outcome, heard) # <<>>,
                 pre |-> Snapshot, at |-> now ]
    /\ scenario' = NoScenario
    /\ asked' = AskedNext
    /\ playback' = PlaybackNext
    /\ in_speech' = FALSE
    /\ speech_start' = Nothing
    /\ vad_pc' = "loop"
    /\ handled' = handled + 1
    /\ UNCHANGED << connected, now, ollama, local_calls >>
    /\ UNCHANGED << silence_count, speech_count, audio_buffer >>
    /\ UNCHANGED << running, stream, frames, classified, segments, stop_called,
                    start_result, fault >>
    /\ UNCHANGED << threads, aside >>

\* run(): on_segment raises; the exception is caught and printed on the
\* detector's thread, and the detector goes back to silence as after a
\* call that returned.  What the callback did before it raised is its own
\* business: the runner's handler lets nothing escape, so this is a callback
\* other than the runner's.
VadSegmentRaises ==
  /\ vad_pc = "on_segment"
  /\ segments' = [ segments EXCEPT ![Len(segments)].raised = TRUE ]
  /\ in_speech' = FALSE
  /\ speech_start' = Nothing
  /\ vad_pc' = "loop"
  /\ handled' = handled + 1
  /\ UNCHANGED << silence_count, speech_count, audio_buffer >>
  /\ UNCHANGED << running, stream, frames, classified, stop_called,
                  start_result, fault >>
  /\ UNCHANGED << session, threads, aside >>

\* run(): the finally block stops and closes the stream
VadFinally ==
  /\ vad_pc = "finally"
  /\ stream' = "closed"
  /\ vad_pc' = "done"
  /\ UNCHANGED << running, frames, classified, segments, handled, stop_called,
                  start_result, fault >>
  /\ UNCHANGED << detector, off_capture >>

\* VADDetector.stop(), called once on a started detector from another thread
VadStop ==
  /\ vad_pc # "new"
  /\ ~stop_called
  /\ running' = FALSE
  /\ stop_called' = TRUE
  /\ UNCHANGED << vad_pc, stream, frames, classified, segments, handled, start_result,
                  fault >>
  /\ UNCHANGED << detector, off_capture >>

\* ------------------------------------------- ClassroomRunner._init_vad
\* the parameters of VADDetector.__init__
VADDetector_parameters ==
  { "on_segment", "aggressiveness", "rate", "frame_duration", "buffer_audio" }
\* the keyword arguments _init_vad constructs the detector with
init_vad_arguments ==
  { "on_segment", "aggressiveness", "buffer_audio", "enable_aec" }

\* ClassroomRunner._init_vad: without enable_vad it returns False; otherwise
\* it constructs the detector, which raises TypeError on a keyword argument
\* that is not a parameter, and starts it; any exception gives _vad = None
\* and False
runner_init_vad(enable_vad, enable_aec) ==
    /\ init_vad = Nothing
    /\ vad_pc = "new"
    /\ IF ~enable_vad
       THEN /\ init_vad' = Some([ enable_vad |-> enable_vad,
                                  enable_aec |-> enable_aec,
                                  returned |-> FALSE ])
            /\ UNCHANGED << runner_vad, vad_pc, start_result >>
       ELSE IF init_vad_arguments \subseteq VADDetector_parameters
       THEN /\ runner_vad' = "detector"
            /\ vad_pc' = "open"
            /\ start_result' = "started"
            /\ init_vad' = Some([ enable_vad |-> enable_vad,
                                  enable_aec |-> enable_aec,
                                  returned |-> TRUE ])
       ELSE /\ runner_vad' = None
            /\ init_vad' = Some([ enable_vad |-> enable_vad,
                                  enable_aec |-> enable_aec,
                                  returned |-> FALSE ])
            /\ UNCHANGED << vad_pc, start_result >>
    /\ UNCHANGED << running, stream, frames, classified, segments, handled,
                    stop_called, fault >>
    /\ UNCHANGED << session, detector, threads, loopback, canceller,
                    handlers >>

\* _init_vad called on its own
InitVad ==
  \E enable_vad \in BOOLEAN, enable_aec \in BOOLEAN :
    /\ classroom.pc = "new"
    /\ runner_init_vad(enable_vad, enable_aec)
    /\ UNCHANGED << classroom, wiring >>

\* ------------------------------------------- ClassroomRunner.start
\* start() initialises the client, the face recognizer, the transcriber, the
\* local model, the doubt assistant and the detector in that order, each in
\* its own try/except, and then runs the main loop.  The face recognizer
\* only supplies the speaker of a segment, which is an input below.
\* the parameters of DoubtAssistant.__init__
DoubtAssistant_parameters == { "client", "on_state_change", "on_doubt_processed" }
\* the keyword arguments _init_doubt_assistant constructs it with
init_doubt_assistant_arguments ==
  { "client", "local_ollama", "on_state_change", "on_doubt_processed" }

RunnerStep(pc, fields, ok) ==
  /\ classroom' = [ fields EXCEPT !.pc = pc ]
  /\ wiring' = [ wiring EXCEPT !.constructible = @ /\ ok ]

\* _init_client: the client exists once ClassroomClient(...) has returned,
\* whether connect() succeeds or not
RunnerInitClient ==
  \E has_device_client \in BOOLEAN, constructs \in BOOLEAN :
    /\ classroom.pc = "new"
    /\ init_vad = Nothing
    /\ RunnerStep("init_stt",
                  [ classroom EXCEPT !.client =
                      IF has_device_client /\ constructs THEN "client"
                      ELSE None ],
                  has_device_client /\ constructs)
    /\ UNCHANGED << runner_vad, init_vad >>
    /\ UNCHANGED << session, detector, capture, threads, loopback, canceller,
                    handlers >>

\* _init_stt: the transcriber is kept only if its model is loaded
RunnerInitStt ==
  \E has_stt \in BOOLEAN, available \in BOOLEAN :
    /\ classroom.pc = "init_stt"
    /\ RunnerStep("init_local_ollama",
                  [ classroom EXCEPT !.stt =
                      IF has_stt /\ available THEN "stt" ELSE None ],
                  has_stt /\ available)
    /\ UNCHANGED << runner_vad, init_vad >>
    /\ UNCHANGED << session, detector, capture, threads, loopback, canceller,
                    handlers >>

\* _init_local_ollama: the local model is kept only if it answers the probe
RunnerInitLocalOllama ==
  \E answers \in BOOLEAN :
    /\ classroom.pc = "init_local_ollama"
    /\ RunnerStep("init_doubt_assistant",
                  [ classroom EXCEPT !.local_ollama =
                      IF answers THEN "local_ollama" ELSE None ],
                  TRUE)
    /\ UNCHANGED << runner_vad, init_vad >>
    /\ UNCHANGED << session, detector, capture, threads, loopback, canceller,
                    handlers >>

\* _init_doubt_assistant: needs the module and a client; the constructor
\* raises TypeError on a keyword argument that is not a parameter, and any
\* exception gives _doubt_assistant = None
RunnerInitDoubtAssistant ==
  \E has_doubt_assistant \in BOOLEAN :
    /\ classroom.pc = "init_doubt_assistant"
    /\ RunnerStep("init_vad",
                  [ classroom EXCEPT !.doubt_assistant =
                      IF /\ has_doubt_assistant
                         /\ classroom.client # None
                         /\ init_doubt_assistant_arguments
                              \subseteq DoubtAssistant_parameters
                      THEN "doubt_assistant" ELSE None ],
                  has_doubt_assistant)
    /\ UNCHANGED << runner_vad, init_vad >>
    /\ UNCHANGED << session, detector, capture, threads, loopback, canceller,
                    handlers >>

\* _init_vad as the last step of start(); enable_vad is the constructor's
\* flag and HAS_VAD
RunnerInitVad ==
  \E enable_vad \in BOOLEAN, enable_aec \in BOOLEAN :
    /\ classroom.pc = "init_vad"
    /\ runner_init_vad(enable_vad, enable_aec)
    /\ RunnerStep("running", classroom, enable_vad)

\* _on_speech_segment while the runner runs: the segment is transcribed and
\* passed on only with a transcriber, a doubt assistant and buffered audio
RunnerOnSpeechSegment ==
  \E outcome \in STTOutcomes, heard \in Transcripts,
     speaker \in SegmentSpeakers, has_audio \in BOOLEAN :
    LET transcript == transcribe(outcome, heard)
        said == classroom.stt # None /\ has_audio /\ transcript # <<>>
    IN  /\ classroom.pc = "running"
        /\ wiring.segments < MaxCalls
        /\ outcome = "text" \/ heard = T_Empty
        /\ IF /\ classroom.stt # None
              /\ classroom.doubt_assistant # None
              /\ has_audio
           THEN /\ on_speech_segment(transcript, speaker)
                /\ last' = [ op |-> "on_speech_segment", outcome |-> outcome,
                             transcript |-> transcript, speaker |-> speaker,
                             called |-> transcript # <<>>,
                             pre |-> Snapshot, at |-> now ]
                /\ scenario' = NoScenario
                /\ asked' = AskedNext
                /\ playback' = PlaybackNext
                /\ UNCHANGED << connected, now, ollama, local_calls >>
                /\ wiring' = [ wiring EXCEPT
                                 !.segments = @ + 1,
                                 !.heard = IF said THEN @ + 1 ELSE @,
                                 !.calls = IF said THEN @ + 1 ELSE @ ]
           ELSE /\ UNCHANGED session
                /\ wiring' = [ wiring EXCEPT
                                 !.segments = @ + 1,
                                 !.heard = IF said THEN @ + 1 ELSE @ ]
        /\ UNCHANGED << runner_vad, init_vad, classroom >>
        /\ UNCHANGED << detector, capture, threads, loopback, canceller,
                    handlers >>

\* ------------------------------------------------- AcousticEchoCanceller
\* A frame is the sequence of its 16-bit samples (np.frombuffer(..., int16));
\* an absent frame is Nothing, a present one Some(samples).
MicFrames ==
  { Nothing, Some(<<>>), Some(<<300>>), Some(<<300, -100>>),
    Some(<<100, 300, 0>>) }
SpeakerFrames ==
  { Nothing, Some(<<>>), Some(<<0, 0>>), Some(<<0, 0, 0>>),
    Some(<<100, -100>>), Some(<<300, 0>>), Some(<<300, 300>>),
    Some(<<0, 300, -300>>) }

RECURSIVE Sum(_)
Sum(s) == IF s = <<>> THEN 0 ELSE s[1] + Sum(Tail(s))
\* elementwise product of two arrays of one length
Times(a, b) == [ i \in 1..Len(a) |-> a[i] * b[i] ]
\* a[:n]
Take(a, n) == SubSeq(a, 1, n)
Min(a, b) == IF a <= b THEN a ELSE b
\* float -> int16 of astype(np.int16) on the quotient num/den, den > 0:
\* truncation toward zero
TruncDiv(num, den) ==
  IF num >= 0 THEN num \div den ELSE 0 - ((0 - num) \div den)

\* np.std(speaker) > 100, on exact numbers: the variance of the samples
\* exceeds the square of the floor
AboveNoiseFloor(speaker) ==
  LET n == Len(speaker)
  IN  n * Sum(Times(speaker, speaker)) - Sum(speaker) * Sum(speaker)
        > NOISE_FLOOR * NOISE_FLOOR * n * n

\* _basic_aec, the samples it returns (after astype(np.int16)), on exact
\* numbers: scale = sum(mic*speaker) / sum(speaker**2) clipped to [0, 2],
\* cleaned = mic - scale * speaker
basic_aec(mic, speaker) ==
  IF AboveNoiseFloor(speaker)
  THEN LET speaker_power == Sum(Times(speaker, speaker))
           mic_speaker_corr == Sum(Times(mic, speaker))
           clipped == IF mic_speaker_corr < 0 THEN 0
                      ELSE IF mic_speaker_corr > 2 * speaker_power
                        THEN 2 * speaker_power
                      ELSE mic_speaker_corr
       IN  [ i \in 1..Len(mic) |->
               TruncDiv(mic[i] * speaker_power - clipped * speaker[i],
                        speaker_power) ]
  ELSE mic

\* _basic_aec can shift len(speaker) samples into _reference_buffer: the
\* attribute exists, and the slice [-len(speaker):] has len(speaker)
\* elements (for no sample it is the whole buffer, for more than
\* filter_length it is cut to it)
basic_aec_raises(speaker) ==
  IF ~aec.has_reference_buffer THEN "AttributeError"
  ELSE IF Len(speaker) = 0 \/ Len(speaker) > FILTER_LENGTH THEN "ValueError"
  ELSE None

\* what speexdsp's EchoCanceller.process returns for a pair of frames of one
\* length: a frame of that length, whose samples are the library's
speexdsp_process(mic, speaker) == [ i \in 1..Len(mic) |-> "speexdsp" ]

\* AcousticEchoCanceller.process: what it returns or raises. speex_ok says
\* whether self._echo_state.process returns; what it returns is the
\* library's answer for the trimmed pair.
process_result(mic_frame, speaker_frame, speex_ok) ==
  IF mic_frame = Nothing THEN [ ret |-> Nothing ]
  ELSE IF speaker_frame = Nothing \/ speaker_frame[1] = <<>>
    THEN [ ret |-> mic_frame ]
  ELSE
    LET min_len == Min(Len(mic_frame[1]), Len(speaker_frame[1]))
        mic_np == Take(mic_frame[1], min_len)
        speaker_np == Take(speaker_frame[1], min_len)
    IN  IF aec.use_speexdsp /\ aec.echo_state /\ speex_ok
          THEN [ ret |-> Some(speexdsp_process(mic_np, speaker_np)) ]
        ELSE IF basic_aec_raises(speaker_np) # None
          THEN [ raised |-> basic_aec_raises(speaker_np) ]
        ELSE [ ret |-> Some(basic_aec(mic_np, speaker_np)) ]

\* the call reaches _basic_aec and shifts its reference samples in
ShiftsIn(mic_frame, speaker_frame, speex_ok) ==
  /\ mic_frame # Nothing
  /\ speaker_frame # Nothing /\ speaker_frame[1] # <<>>
  /\ ~(aec.use_speexdsp /\ aec.echo_state /\ speex_ok)
  /\ basic_aec_raises(Take(speaker_frame[1],
                           Min(Len(mic_frame[1]), Len(speaker_frame[1]))))
       = None

\* AcousticEchoCanceller.__init__: speexdsp was imported or not, and when it
\* was, EchoCanceller.create returns or raises; the reference buffer is
\* made only when speexdsp is not in use
AecInit ==
  \E has_speexdsp \in BOOLEAN, created \in BOOLEAN :
    /\ ~aec.constructed
    /\ has_speexdsp \/ ~created
    /\ aec' = [ constructed |-> TRUE,
                use_speexdsp |-> has_speexdsp /\ created,
                echo_state |-> has_speexdsp /\ created,
                has_reference_buffer |-> ~(has_speexdsp /\ created),
                shifted_in |-> 0 ]
    /\ UNCHANGED aec_calls
    /\ UNCHANGED << session, detector, capture, threads, loopback, runner,
                    handlers >>

\* a call of AcousticEchoCanceller.process
AecProcess ==
  \E mic_frame \in MicFrames, speaker_frame \in SpeakerFrames,
     speex_ok \in BOOLEAN :
    /\ aec.constructed
    /\ aec_calls < MaxCalls
    /\ speex_ok \/ (aec.use_speexdsp /\ aec.echo_state)
    /\ result' = process_result(mic_frame, speaker_frame, speex_ok)
    /\ aec' = IF ShiftsIn(mic_frame, speaker_frame, speex_ok)
              THEN [ aec EXCEPT !.shifted_in =
                       Min(FILTER_LENGTH,
                           @ + Min(Len(mic_frame[1]), Len(speaker_frame[1]))) ]
              ELSE aec
    /\ aec_calls' = aec_calls + 1
    /\ last' = [ op |-> "process", mic_frame |-> mic_frame,
                 speaker_frame |-> speaker_frame, speex_ok |-> speex_ok,
                 before |-> aec, call |-> aec_calls + 1 ]
    /\ UNCHANGED << machine, video_context, connected, now, ollama, emitted,
                    notified, local_calls, scenario, asked,
                    playback >>
    /\ UNCHANGED << detector, capture, threads, loopback, runner,
                    handlers >>

\* ------------------------------------------------------- LoopbackCapture
\* what the steps of the loopback thread leave alone
off_loopback == << session, detector, capture, threads, canceller, runner,
                  handlers >>

\* Thread.start() on the loopback capture: run() begins on its own thread
LbStart ==
  /\ lb_pc = "new"
  /\ lb_pc' = "find"
  /\ UNCHANGED << lb_running, lb_stream, lb_current_frame, lb_reads,
                  lb_fault, lb_stop_called >>
  /\ UNCHANGED off_loopback

\* run(): _find_loopback_device returns a device index, or None and run()
\* returns
LbFind ==
  \E found \in BOOLEAN :
    /\ lb_pc = "find"
    /\ IF found
       THEN lb_pc' = "open" /\ lb_fault' = lb_fault
       ELSE lb_pc' = "done" /\ lb_fault' = "no_device"
    /\ UNCHANGED << lb_running, lb_stream, lb_current_frame, lb_reads,
                    lb_stop_called >>
    /\ UNCHANGED off_loopback

\* run(): self._audio.open(...) succeeds, or raises: the exception is caught
\* and printed, and run() returns
LbOpen ==
  \E opened \in BOOLEAN :
    /\ lb_pc = "open"
    /\ IF opened
       THEN lb_stream' = "open" /\ lb_pc' = "set_running"
            /\ lb_fault' = lb_fault
       ELSE lb_stream' = lb_stream /\ lb_pc' = "done"
            /\ lb_fault' = "open_failed"
    /\ UNCHANGED << lb_running, lb_current_frame, lb_reads, lb_stop_called >>
    /\ UNCHANGED off_loopback

\* run(): self.running = True
LbSetRunning ==
  /\ lb_pc = "set_running"
  /\ lb_running' = TRUE
  /\ lb_pc' = "loop"
  /\ UNCHANGED << lb_stream, lb_current_frame, lb_reads, lb_fault,
                  lb_stop_called >>
  /\ UNCHANGED off_loopback

\* run(): one test of `while self.running`, and, when it passes, one read:
\* the frame goes into the _current_frame slot (on_frame is None as
\* get_loopback_capture constructs it), or the read raises, the exception
\* is printed and `break` leaves the loop
LbIterate ==
  /\ lb_pc = "loop"
  /\ IF lb_running
     THEN /\ lb_reads < MaxFrames
          /\ \E read_ok \in BOOLEAN :
               IF read_ok
               THEN /\ lb_reads' = lb_reads + 1
                    /\ lb_current_frame' = Some(lb_reads + 1)
                    /\ UNCHANGED << lb_pc, lb_fault >>
               ELSE /\ lb_pc' = "finally"
                    /\ lb_fault' = "read_failed"
                    /\ UNCHANGED << lb_reads, lb_current_frame >>
     ELSE /\ lb_pc' = "finally"
          /\ UNCHANGED << lb_reads, lb_current_frame, lb_fault >>
  /\ UNCHANGED << lb_running, lb_stream, lb_stop_called >>
  /\ UNCHANGED off_loopback

\* run(): the finally block stops and closes the stream
LbFinally ==
  /\ lb_pc = "finally"
  /\ lb_stream' = "closed"
  /\ lb_pc' = "done"
  /\ UNCHANGED << lb_running, lb_current_frame, lb_reads, lb_fault,
                  lb_stop_called >>
  /\ UNCHANGED off_loopback

\* LoopbackCapture.stop(), called once on a started capture
LbStop ==
  /\ lb_pc # "new"
  /\ ~lb_stop_called
  /\ lb_running' = FALSE
  /\ lb_stop_called' = TRUE
  /\ UNCHANGED << lb_pc, lb_stream, lb_current_frame, lb_reads, lb_fault >>
  /\ UNCHANGED off_loopback

\* ------------------------------- DoubtAssistant called from two threads
\* DoubtAssistant holds no lock: a call is a sequence of statements, each
\* reading or writing one field or emitting one event, and a thread may be
\* preempted between any two of them.
Goto(t, label) == thr_pc' = [ thr_pc EXCEPT ![t] = label ]
Return(t) == Goto(t, "idle")
At(t, label) == thr_pc[t] = label
Send(name) == wire' = Append(wire, name)
\* what a statement of a call leaves alone besides the machine's fields
off_machine ==
  << video_context, connected, now, ollama, emitted, notified, result, last,
     local_calls, scenario, asked, playback, detector, capture,
     thr_calls, aside >>

\* the transcription thread calls on_speech_transcript: an empty transcript
\* returns at once, otherwise the transcript is stripped and its trigger
\* detected
CallOnSpeechTranscript ==
  \E transcript \in Transcripts, speaker \in Speakers :
    /\ At("transcription", "idle")
    /\ thr_calls["transcription"] < MaxThreadCalls
    /\ thr_calls' = [ thr_calls EXCEPT !["transcription"] = @ + 1 ]
    /\ IF transcript = <<>>
       THEN UNCHANGED << thr_pc, thr_local >>
       ELSE /\ Goto("transcription", "dispatch")
            /\ thr_local' =
                 [ thr_local EXCEPT !["transcription"] =
                     [ trigger |-> TriggerTable[StripTable[transcript]],
                       speaker |-> speaker, conn |-> FALSE ] ]
    /\ UNCHANGED << session, detector, capture, wire, aside >>

\* the inbound-event thread calls force_exit_doubt_mode
CallForceExit ==
  /\ At("inbound", "idle")
  /\ thr_calls["inbound"] < MaxThreadCalls
  /\ thr_calls' = [ thr_calls EXCEPT !["inbound"] = @ + 1 ]
  /\ Goto("inbound", "force_read")
  /\ UNCHANGED << session, detector, capture, thr_local, wire, aside >>

\* on_speech_transcript: `if self.state == VIDEO_PLAYING`, then
\* `elif self.state == DOUBT_MODE`, then `self._waiting_for_question`
Dispatch(t) ==
  /\ \/ /\ At(t, "dispatch")
        /\ IF state = STATE_VIDEO_PLAYING
           THEN IF thr_local[t].trigger = "doubt"
                THEN Goto(t, "enter_state") ELSE Return(t)
           ELSE Goto(t, "dispatch_doubt")
     \/ /\ At(t, "dispatch_doubt")
        /\ IF state = STATE_DOUBT_MODE
           THEN IF thr_local[t].trigger = "resume"
                THEN Goto(t, "exit_state") ELSE Goto(t, "dispatch_waiting")
           ELSE Return(t)
     \/ /\ At(t, "dispatch_waiting")
        /\ IF waiting_for_question /\ thr_local[t].trigger = None
           THEN Goto(t, "process_waiting") ELSE Return(t)
     \/ /\ At(t, "force_read")
        /\ IF state = STATE_DOUBT_MODE
           THEN Goto(t, "exit_state") ELSE Return(t)
  /\ UNCHANGED << machine, thr_local, wire, off_machine >>

\* _enter_doubt_mode, statement by statement
EnterDoubtMode(t) ==
  \/ /\ At(t, "enter_state")
     /\ state' = STATE_DOUBT_MODE
     /\ Goto(t, "enter_speaker")
     /\ UNCHANGED << current_speaker, doubt_start_time, waiting_for_question,
                     thr_local, wire, off_machine >>
  \/ /\ At(t, "enter_speaker")
     /\ current_speaker' = thr_local[t].speaker
     /\ Goto(t, "enter_time")
     /\ UNCHANGED << state, doubt_start_time, waiting_for_question,
                     thr_local, wire, off_machine >>
  \/ /\ At(t, "enter_time")
     /\ doubt_start_time' = Some(now)
     /\ Goto(t, "enter_waiting")
     /\ UNCHANGED << state, current_speaker, waiting_for_question,
                     thr_local, wire, off_machine >>
  \/ /\ At(t, "enter_waiting")
     /\ waiting_for_question' = TRUE
     /\ Goto(t, "enter_paused_at")
     /\ UNCHANGED << state, current_speaker, doubt_start_time,
                     thr_local, wire, off_machine >>
  \/ /\ At(t, "enter_paused_at")
     /\ video_context' = [ video_context EXCEPT !.paused_at = Some(now) ]
     /\ Goto(t, "enter_emit_pause")
     /\ UNCHANGED << machine, thr_local, wire, connected, now, ollama,
                     emitted, notified, result, last, local_calls, scenario,
                     asked, playback, detector, capture,
                     thr_calls, aside >>
  \/ /\ At(t, "enter_emit_pause")
     /\ thr_local' = [ thr_local EXCEPT ![t].conn = connected ]
     /\ IF connected THEN Send("video:pause") ELSE UNCHANGED wire
     /\ Goto(t, "enter_emit_entered")
     /\ UNCHANGED << machine, off_machine >>
  \/ /\ At(t, "enter_emit_entered")
     /\ IF thr_local[t].conn THEN Send("doubt:mode-entered")
        ELSE UNCHANGED wire
     /\ Return(t)
     /\ UNCHANGED << machine, thr_local, off_machine >>

\* _exit_doubt_mode, statement by statement
ExitDoubtMode(t) ==
  \/ /\ At(t, "exit_state")
     /\ state' = STATE_VIDEO_PLAYING
     /\ Goto(t, "exit_waiting")
     /\ UNCHANGED << current_speaker, doubt_start_time, waiting_for_question,
                     thr_local, wire, off_machine >>
  \/ /\ At(t, "exit_waiting")
     /\ waiting_for_question' = FALSE
     /\ Goto(t, "exit_emit_resume")
     /\ UNCHANGED << state, current_speaker, doubt_start_time,
                     thr_local, wire, off_machine >>
  \/ /\ At(t, "exit_emit_resume")
     /\ thr_local' = [ thr_local EXCEPT ![t].conn = connected ]
     /\ IF connected THEN Send("video:resume") ELSE UNCHANGED wire
     /\ Goto(t, "exit_emit_exited")
     /\ UNCHANGED << machine, off_machine >>
  \/ /\ At(t, "exit_emit_exited")
     /\ IF thr_local[t].conn THEN Send("doubt:mode-exited")
        ELSE UNCHANGED wire
     /\ Goto(t, "exit_speaker")
     /\ UNCHANGED << machine, thr_local, off_machine >>
  \/ /\ At(t, "exit_speaker")
     /\ current_speaker' = None
     /\ Goto(t, "exit_time")
     /\ UNCHANGED << state, doubt_start_time, waiting_for_question,
                     thr_local, wire, off_machine >>
  \/ /\ At(t, "exit_time")
     /\ doubt_start_time' = Nothing
     /\ Return(t)
     /\ UNCHANGED << state, current_speaker, waiting_for_question,
                     thr_local, wire, off_machine >>

\* _process_doubt, statement by statement
ProcessDoubt(t) ==
  \/ /\ At(t, "process_waiting")
     /\ waiting_for_question' = FALSE
     /\ Goto(t, "process_emit_doubt")
     /\ UNCHANGED << state, current_speaker, doubt_start_time,
                     thr_local, wire, off_machine >>
  \/ /\ At(t, "process_emit_doubt")
     /\ thr_local' = [ thr_local EXCEPT ![t].conn = connected ]
     /\ IF connected THEN Send("doubt:query") ELSE UNCHANGED wire
     /\ Goto(t, "process_emit_ai")
     /\ UNCHANGED << machine, off_machine >>
  \/ /\ At(t, "process_emit_ai")
     /\ IF thr_local[t].conn /\ connected THEN Send("ai:query")
        ELSE UNCHANGED wire
     /\ Return(t)
     /\ UNCHANGED << machine, thr_local, off_machine >>

\* one statement of the call a thread is making
ThreadStep == \E t \in Threads :
  \/ Dispatch(t)
  \/ EnterDoubtMode(t)
  \/ ExitDoubtMode(t)
  \/ ProcessDoubt(t)

\* ------------------------------------------------------- specifications
Next ==
  \/ OnSpeechTranscript
  \/ ForceExitDoubtMode
  \/ OnVideoContext
  \/ Connect
  \/ Disconnect
  \/ Tick

\* the session machine with its transport and clock
Spec == Init /\ [][Next]_vars

NextOllama ==
  \/ CheckHealth
  \/ Generate
  \/ Tick

\* the local inference client alone
SpecOllama == Init /\ [][NextOllama]_vars

NextRouter ==
  \/ OnSpeechTranscript
  \/ Connect
  \/ CheckHealth
  \/ Generate

\* question dispatch next to the local inference client
SpecRouter == Init /\ [][NextRouter]_vars

NextSegments ==
  \/ OnSpeechSegment
  \/ OnSpeechTranscript
  \/ Connect
  \/ Disconnect

\* the session machine fed by the runner's segment handler
SpecSegments == Init /\ [][NextSegments]_vars

NextRunner ==
  \/ RunnerInitClient
  \/ RunnerInitStt
  \/ RunnerInitLocalOllama
  \/ RunnerInitDoubtAssistant
  \/ RunnerInitVad
  \/ RunnerOnSpeechSegment

\* ClassroomRunner.start and the segments its handler is given
SpecRunner == Init /\ [][NextRunner]_vars

NextVad ==
  \/ InitVad
  \/ VadStart
  \/ VadOpen
  \/ VadSetRunning
  \/ VadIterate
  \/ VadSegmentHandled
  \/ VadSegmentRaises
  \/ VadFinally
  \/ VadStop

\* the voice activity detector thread with its segment callback
SpecVad == Init /\ [][NextVad]_vars

NextFaults ==
  \/ OnSpeechTranscript
  \/ ForceExitDoubtMode
  \/ OnSpeechTranscriptRaises
  \/ ForceExitDoubtModeRaises
  \/ Connect
  \/ Disconnect

\* the session machine with collaborators that may raise
SpecFaults == Init /\ [][NextFaults]_vars

NextText ==
  \/ DetectTrigger
  \/ ExtractQuestion

\* the text functions of TriggerDetector applied to composed transcripts
SpecText == Init /\ [][NextText]_vars

NextAec ==
  \/ AecInit
  \/ AecProcess

\* the echo canceller
SpecAec == Init /\ [][NextAec]_vars

NextLoopback ==
  \/ LbStart
  \/ LbFind
  \/ LbOpen
  \/ LbSetRunning
  \/ LbIterate
  \/ LbFinally
  \/ LbStop

\* the loopback capture thread
SpecLoopback == Init /\ [][NextLoopback]_vars

NextThreads ==
  \/ CallOnSpeechTranscript
  \/ CallForceExit
  \/ ThreadStep
  \/ Connect

\* the machine called from the transcription thread and the inbound-event
\* thread at once
SpecThreads == Init /\ [][NextThreads]_vars

\* ================================================================ claims
\* the last step was an on_speech_transcript call
IsTranscript == last.op = "on_speech_transcript"
\* the last step was a call to the machine
IsMachineCall == last.op \in { "on_speech_transcript", "force_exit_doubt_mode" }
\* the names of a sequence of events
EventNames(evs) == [ i \in 1..Len(evs) |-> evs[i].event ]
\* the machine's fields and the video context, now and before the last call
View ==
  [ state |-> state, current_speaker |-> current_speaker,
    doubt_start_time |-> doubt_start_time,
    waiting_for_question |-> waiting_for_question,
    video_context |-> video_context ]
PreView ==
  [ state |-> last.pre.state, current_speaker |-> last.pre.current_speaker,
    doubt_start_time |-> last.pre.doubt_start_time,
    waiting_for_question |-> last.pre.waiting_for_question,
    video_context |-> last.pre.video_context ]
\* the last call changed nothing, emitted nothing and notified nobody
Untouched == View = PreView /\ emitted = <<>> /\ notified = <<>>
NotifiedOnce(st) ==
  /\ Len(notified) = 1
  /\ notified[1].callback = "on_state_change"
  /\ notified[1].state = st

\* C1: session data exists only in DOUBT_MODE (in VIDEO_PLAYING the machine
\* is not waiting and has no speaker and no start time), DOUBT_MODE is only
\* entered from VIDEO_PLAYING, and a call that stays in DOUBT_MODE keeps the
\* session it found (its speaker and start time), so no second session is
\* created while one is active.
C1_SingleSession ==
  /\ state = STATE_VIDEO_PLAYING =>
       /\ waiting_for_question = FALSE
       /\ current_speaker = None
       /\ doubt_start_time = Nothing
  /\ state = STATE_DOUBT_MODE => doubt_start_time # Nothing
  /\ IsMachineCall =>
       /\ result.action = "entered_doubt_mode" =>
            last.pre.state = STATE_VIDEO_PLAYING
       /\ (last.pre.state = STATE_DOUBT_MODE /\ state = STATE_DOUBT_MODE) =>
            /\ current_speaker = last.pre.current_speaker
            /\ doubt_start_time = last.pre.doubt_start_time

\* C1 witness: a session has just ended and left no session data behind
C1_Witness ==
  /\ IsMachineCall
  /\ last.pre.state = STATE_DOUBT_MODE
  /\ last.pre.current_speaker # None
  /\ state = STATE_VIDEO_PLAYING

\* the case of rule 1: a doubt trigger heard in VIDEO_PLAYING
Rule1Case ==
  /\ IsTranscript
  /\ last.pre.state = STATE_VIDEO_PLAYING
  /\ last.trigger = "doubt"

\* what rule 1 does to the machine and the observer
Rule1Local ==
  /\ state = STATE_DOUBT_MODE
  /\ current_speaker = last.speaker
  /\ waiting_for_question = TRUE
  /\ doubt_start_time # Nothing
  /\ NotifiedOnce(STATE_DOUBT_MODE)
  /\ result.action = "entered_doubt_mode"

\* video:pause (reason doubt_mode) followed by doubt:mode-entered
PauseThenEntered ==
  /\ EventNames(emitted) = << "video:pause", "doubt:mode-entered" >>
  /\ emitted[1].reason = "doubt_mode"
  /\ emitted[2].speaker = last.speaker

\* C2 as claimed: in VIDEO_PLAYING a doubt trigger enters DOUBT_MODE with the
\* speaker recorded and waiting_for_question set, emits video:pause then
\* doubt:mode-entered, and notifies the observer once with DOUBT_MODE.
C2_Rule1_AsClaimed == Rule1Case => (Rule1Local /\ PauseThenEntered)

\* C2 (amended): as claimed, except that the two events are emitted only when
\* the transport is connected; when it is not, nothing is emitted.
C2_Rule1 ==
  Rule1Case =>
    /\ Rule1Local
    /\ IF last.pre.connected THEN PauseThenEntered ELSE emitted = <<>>

\* C2 witness: a doubt trigger entered DOUBT_MODE with the transport connected
C2_Witness == Rule1Case /\ last.pre.connected /\ last.speaker # None

\* the case of rule 2: a trigger-free transcript heard while waiting
Rule2Case ==
  /\ IsTranscript
  /\ last.transcript # <<>>
  /\ last.pre.state = STATE_DOUBT_MODE
  /\ last.pre.waiting_for_question
  /\ last.trigger = None

\* the question of the last transcript as extract_question cleans it
ExtractedQuestion == extract_question(Strip(last.transcript))
\* the same, falling back to the transcript when nothing is left of it
HeardQuestion ==
  IF ExtractedQuestion = <<>> THEN Strip(last.transcript) ELSE ExtractedQuestion
\* the video context as it was when the question was heard
HeardContext ==
  [ video_title |-> last.pre.video_context.title,
    video_topic |-> last.pre.video_context.topic,
    video_url |-> last.pre.video_context.url ]

\* what rule 2 does to the machine: it stops waiting and stays in DOUBT_MODE
Rule2Local ==
  /\ state = STATE_DOUBT_MODE
  /\ waiting_for_question = FALSE
  /\ current_speaker = last.pre.current_speaker
  /\ doubt_start_time = last.pre.doubt_start_time
  /\ video_context = last.pre.video_context
  /\ result.action = "doubt_processed"
  /\ \A i \in 1..Len(notified) : notified[i].callback # "on_state_change"
  /\ \A i \in 1..Len(emitted) :
       emitted[i].event \notin { "video:resume", "doubt:mode-exited" }

\* the question q and the context go out as doubt:query and ai:query
QueryDispatched(q) ==
  /\ EventNames(emitted) = << "doubt:query", "ai:query" >>
  /\ emitted[1].question = q
  /\ emitted[1].context = HeardContext
  /\ emitted[2].text = build_contextual_query(q, HeardContext)
  /\ emitted[2].context = HeardContext
  /\ result.question = q

\* C3 as claimed: while waiting in DOUBT_MODE a trigger-free transcript is the
\* question: the extracted question and the video context are dispatched as a
\* query, waiting_for_question becomes false and the machine stays in
\* DOUBT_MODE without emitting a resume.
C3_Rule2_AsClaimed ==
  Rule2Case => (Rule2Local /\ QueryDispatched(ExtractedQuestion))

\* C3 (amended): as claimed, except that the query is dispatched only when the
\* transport is connected (nothing is emitted otherwise), and that the text
\* dispatched is the transcript itself when extract_question leaves nothing.
C3_Rule2 ==
  Rule2Case =>
    /\ Rule2Local
    /\ IF last.pre.connected THEN QueryDispatched(HeardQuestion)
       ELSE emitted = <<>> /\ result.question = HeardQuestion

\* C3 witness: a question with a removable prefix was dispatched
C3_Witness ==
  /\ Rule2Case
  /\ last.pre.connected
  /\ ExtractedQuestion # <<>>
  /\ ExtractedQuestion # Strip(last.transcript)

\* the case of rule 3: a resume trigger heard in DOUBT_MODE
Rule3Case ==
  /\ IsTranscript
  /\ last.pre.state = STATE_DOUBT_MODE
  /\ last.trigger = "resume"

\* what rule 3 does to the machine and the observer; no query goes out
Rule3Local ==
  /\ state = STATE_VIDEO_PLAYING
  /\ waiting_for_question = FALSE
  /\ current_speaker = None
  /\ doubt_start_time = Nothing
  /\ video_context = last.pre.video_context
  /\ NotifiedOnce(STATE_VIDEO_PLAYING)
  /\ result.action = "exited_doubt_mode"
  /\ \A i \in 1..Len(emitted) :
       emitted[i].event \notin { "doubt:query", "ai:query" }

\* video:resume (reason doubt_resolved) followed by doubt:mode-exited
ResumeThenExited ==
  /\ EventNames(emitted) = << "video:resume", "doubt:mode-exited" >>
  /\ emitted[1].reason = "doubt_resolved"

\* C4 as claimed: in DOUBT_MODE a resume trigger exits to VIDEO_PLAYING at
\* either value of waiting_for_question, dispatching no query, emits
\* video:resume then doubt:mode-exited, destroys the session and notifies the
\* observer with VIDEO_PLAYING.
C4_Rule3_AsClaimed == Rule3Case => (Rule3Local /\ ResumeThenExited)

\* C4 (amended): as claimed, except that the two events are emitted only when
\* the transport is connected; when it is not, nothing is emitted.
C4_Rule3 ==
  Rule3Case =>
    /\ Rule3Local
    /\ IF last.pre.connected THEN ResumeThenExited ELSE emitted = <<>>

\* C4 witness: a resume trigger ended a session that was still waiting
C4_Witness ==
  /\ Rule3Case
  /\ last.pre.waiting_for_question
  /\ last.pre.connected

\* the case of rule 4: a doubt trigger heard in DOUBT_MODE after the question
Rule4Case ==
  /\ IsTranscript
  /\ last.pre.state = STATE_DOUBT_MODE
  /\ ~last.pre.waiting_for_question
  /\ last.trigger = "doubt"

\* C5: in DOUBT_MODE with waiting_for_question false a doubt trigger returns
\* already_in_doubt_mode and changes nothing: state, session fields and video
\* context are as before, nothing is emitted and no observer is notified.
C5_Rule4 ==
  Rule4Case => (result = [ action |-> "already_in_doubt_mode" ] /\ Untouched)

\* C5 witness: a doubt trigger arrived after the question of the session
C5_Witness == Rule4Case /\ last.pre.connected

\* the cases of rule 5, for a transcript that is not empty
Rule5Case ==
  /\ IsTranscript
  /\ last.transcript # <<>>
  /\ \/ last.pre.state = STATE_VIDEO_PLAYING /\ last.trigger # "doubt"
     \/ /\ last.pre.state = STATE_DOUBT_MODE
        /\ ~last.pre.waiting_for_question
        /\ last.trigger = None

\* C6: in VIDEO_PLAYING a transcript without a doubt trigger (a resume
\* trigger included), and in DOUBT_MODE after the question a transcript
\* without a trigger, returns no_action and changes nothing: nothing is
\* emitted and no observer is notified.
C6_Rule5 == Rule5Case => (result.action = "no_action" /\ Untouched)

\* C6 witness: a resume trigger was heard in VIDEO_PLAYING, transport connected
C6_Witness ==
  /\ Rule5Case
  /\ last.pre.state = STATE_VIDEO_PLAYING
  /\ last.trigger = "resume"
  /\ last.pre.connected

\* the other case of rule 5 is reached too
C6_WitnessDoubtMode ==
  /\ Rule5Case
  /\ last.pre.state = STATE_DOUBT_MODE
  /\ last.pre.connected

\* how many events named name a sequence of events holds
CountEvents(evs, name) == Cardinality({ i \in 1..Len(evs) : evs[i].event = name })

\* C7: for the run (doubt trigger, trigger-free question, resume trigger) of
\* one speaker with the transport connected, the machine goes from
\* VIDEO_PLAYING to DOUBT_MODE emitting the pause, stays in DOUBT_MODE on the
\* question, returns to VIDEO_PLAYING emitting the resume, and exactly one
\* query (one ai:query, announced by one doubt:query) is dispatched in all.
C7_EndToEnd ==
  /\ scenario.stage = 1 =>
       /\ scenario.states = << STATE_DOUBT_MODE >>
       /\ EventNames(scenario.sent) = << "video:pause", "doubt:mode-entered" >>
  /\ scenario.stage = 2 =>
       /\ scenario.states = << STATE_DOUBT_MODE, STATE_DOUBT_MODE >>
       /\ EventNames(scenario.sent) =
            << "video:pause", "doubt:mode-entered", "doubt:query", "ai:query" >>
  /\ scenario.stage = 3 =>
       /\ scenario.states =
            << STATE_DOUBT_MODE, STATE_DOUBT_MODE, STATE_VIDEO_PLAYING >>
       /\ EventNames(scenario.sent) =
            << "video:pause", "doubt:mode-entered", "doubt:query", "ai:query",
               "video:resume", "doubt:mode-exited" >>
       /\ CountEvents(scenario.sent, "ai:query") = 1
       /\ CountEvents(scenario.sent, "doubt:query") = 1
       /\ state = STATE_VIDEO_PLAYING

\* C7 witness: the three transcripts of the run have been processed
C7_Witness == scenario.stage = 3 /\ scenario.speaker # None

\* a question has just been dispatched by the machine, transport connected
DispatchCase ==
  /\ IsTranscript
  /\ result.action = "doubt_processed"
  /\ Strip(last.transcript) # <<>>
  /\ last.pre.connected
\* calls of LocalOllama.generate made by the last step
LocalAttempts == local_calls - last.pre.local_calls
\* queries the last step forwarded to the remote capability
RemoteDispatches == CountEvents(emitted, "ai:query")
\* the last step delivered an answer of the local capability
LocalAnswered == \E i \in 1..Len(emitted) : emitted[i].event = "ai:local-response"

\* C8 as claimed: for each query the local capability is attempted first; if
\* it succeeds the answer is delivered from the local source and the query is
\* not forwarded; if it fails the query is forwarded to the remote capability
\* exactly once.
C8_Router_AsClaimed ==
  DispatchCase =>
    /\ LocalAttempts = 1
    /\ IF LocalAnswered THEN RemoteDispatches = 0 ELSE RemoteDispatches = 1

\* C9 as claimed: when the local health check reports unavailable, a dispatch
\* makes exactly one remote dispatch and no local generate call; when the
\* local capability is available and answering, it makes no remote dispatch.
C9_SingleDelivery_AsClaimed ==
  DispatchCase =>
    /\ last.pre.healthy = Some(FALSE) =>
         (RemoteDispatches = 1 /\ LocalAttempts = 0)
    /\ last.pre.healthy = Some(TRUE) => RemoteDispatches = 0

\* a transition of the machine has just been made, transport disconnected
OfflineTransition ==
  /\ IsMachineCall
  /\ result.action \in { "entered_doubt_mode", "doubt_processed",
                         "exited_doubt_mode" }
  /\ ~last.pre.connected

\* what the transition of the last step returns when the transport is connected
ResultWhenConnected ==
  IF result.action = "entered_doubt_mode"
    THEN [ action |-> "entered_doubt_mode", speaker |-> last.speaker,
           message |-> "Video paused. Please state your doubt clearly." ]
  ELSE IF result.action = "exited_doubt_mode"
    THEN [ action |-> "exited_doubt_mode",
           speaker |-> last.pre.current_speaker,
           message |-> "Resuming video playback." ]
  ELSE [ action |-> "doubt_processed", question |-> HeardQuestion,
         speaker |-> Or(last.speaker, last.pre.current_speaker),
         context |-> HeardContext ]

\* C10 as claimed: with the transport disconnected a transition changes the
\* local state, emits nothing, and returns a result that differs from the one
\* the same transition returns when connected.
C10_Offline_AsClaimed ==
  OfflineTransition =>
    /\ View # PreView
    /\ emitted = <<>>
    /\ result # ResultWhenConnected

\* ResultWhenConnected is what connected transitions return
ConnectedResultIsAsStated ==
  ( /\ IsMachineCall
    /\ result.action \in { "entered_doubt_mode", "doubt_processed",
                           "exited_doubt_mode" }
    /\ last.pre.connected ) => result = ResultWhenConnected

\* a call has just run the exit transition from DOUBT_MODE: a forced exit, or
\* a transcript with a resume trigger
IsForcedExit == last.op = "force_exit_doubt_mode"
ExitCase ==
  /\ IsMachineCall
  /\ last.pre.state = STATE_DOUBT_MODE
  /\ IsForcedExit \/ last.trigger = "resume"

\* everything a call leaves behind: the machine's fields, the events passed
\* to the transport, the observer notifications and the returned value
Outcome ==
  [ view |-> View, emitted |-> emitted, notified |-> notified,
    result |-> result ]

\* an event as it is emitted by a call made at time t
StampedAt(ev, t) == [ ev EXCEPT !.timestamp = t ]

\* the cleanup of rule 3 as a function of the state the call found
Rule3Cleanup ==
  [ view |-> [ state |-> STATE_VIDEO_PLAYING, current_speaker |-> None,
               doubt_start_time |-> Nothing, waiting_for_question |-> FALSE,
               video_context |-> last.pre.video_context ],
    emitted |-> IF last.pre.connected
                THEN << StampedAt(EvResume, last.at),
                        StampedAt(EvModeExited, last.at) >>
                ELSE <<>>,
    notified |-> << [ callback |-> "on_state_change",
                      state |-> STATE_VIDEO_PLAYING, data |-> <<>> ] >>,
    result |-> [ action |-> "exited_doubt_mode",
                 speaker |-> last.pre.current_speaker,
                 message |-> "Resuming video playback." ] ]

\* C14: in DOUBT_MODE, at either value of waiting_for_question, a forced exit
\* and a resume-trigger transcript leave the same outcome, the one function
\* Rule3Cleanup of the state they found: the same resulting state, the same
\* events (video:resume then doubt:mode-exited on a connected transport) and
\* the same single observer notification.
C14_ForcedExitEquivalence ==
  ExitCase =>
    /\ Outcome = Rule3Cleanup
    /\ NotifiedOnce(STATE_VIDEO_PLAYING)
    /\ last.pre.connected => ResumeThenExited

\* C14 witness: a forced exit ended a session that was still waiting
C14_Witness ==
  /\ ExitCase
  /\ IsForcedExit
  /\ last.pre.waiting_for_question
  /\ last.pre.current_speaker # None
  /\ last.pre.connected

\* the forced exit is also reached after the question of the session
C14_WitnessAfterQuestion ==
  /\ ExitCase
  /\ IsForcedExit
  /\ ~last.pre.waiting_for_question
  /\ last.pre.connected

\* the resume transition requested while the machine is in VIDEO_PLAYING
ResumeWhilePlaying ==
  /\ IsForcedExit
  /\ last.pre.state = STATE_VIDEO_PLAYING

\* C15: the resume transition (force_exit_doubt_mode) called in VIDEO_PLAYING
\* returns not_in_doubt_mode and is a no-op, the first time and every time it
\* is repeated: state, session fields and video context are unchanged,
\* nothing is emitted and the observer is not notified.
C15_Idempotent ==
  ResumeWhilePlaying =>
    /\ result = [ action |-> "not_in_doubt_mode" ]
    /\ Untouched
    /\ state = STATE_VIDEO_PLAYING

\* C15 witness: the call was repeated right after an earlier one, connected
C15_Witness ==
  /\ ResumeWhilePlaying
  /\ last.again
  /\ last.pre.connected

\* the last step was a check_health call
IsHealthCheck == last.op = "check_health"
\* the call found a known health value probed less than the interval ago
\* and was not forced
CacheFresh ==
  /\ ~last.force
  /\ last.pre.healthy # Nothing
  /\ last.at - last.pre_last_health_check < OLLAMA_RETRY_INTERVAL

\* C17: check_health(force=False) with a known value probed less than the
\* retry interval ago returns that value without probing and leaves the cache
\* as it was; in every other case (interval elapsed, value unknown, or
\* force=True) it makes one probe, returns the probe's result and stores it
\* with the time of the call.
C17_HealthCache ==
  IsHealthCheck =>
    IF CacheFresh
    THEN /\ last.probe = "none"
         /\ result.probed = FALSE
         /\ result.value = last.pre.healthy[1]
         /\ healthy = last.pre.healthy
         /\ last_health_check = last.pre_last_health_check
    ELSE /\ last.probe \in ProbeOutcomes
         /\ result.probed = TRUE
         /\ result.value = (last.probe = "ok")
         /\ healthy = Some(last.probe = "ok")
         /\ last_health_check = last.at

\* C17 witness: a cached value was returned some time after its probe
C17_Witness ==
  /\ IsHealthCheck
  /\ CacheFresh
  /\ last.at > last.pre_last_health_check

\* a call after the interval has elapsed probes again
C17_WitnessExpired ==
  /\ IsHealthCheck
  /\ ~last.force
  /\ last.pre.healthy # Nothing
  /\ last.at - last.pre_last_health_check >= OLLAMA_RETRY_INTERVAL
  /\ result.probed

\* a forced call probes although the cached value is fresh
C17_WitnessForced ==
  /\ IsHealthCheck
  /\ last.force
  /\ last.pre.healthy # Nothing
  /\ last.at - last.pre_last_health_check < OLLAMA_RETRY_INTERVAL
  /\ result.probed

\* ------------------------------------------------ voice activity detector
\* frame k has been read and was classified as speech / as silence
SpeechAt(k) == k \in 1..Len(frames) /\ frames[k]
SilenceAt(k) == k \in 1..Len(frames) /\ ~frames[k]
\* frame k is the second of two consecutive speech frames that follow
\* silence (or the start of the capture)
SecondOfTwo(k) == SpeechAt(k) /\ SpeechAt(k - 1) /\ ~SpeechAt(k - 2)
\* frame k is the third of three consecutive silence frames
ThirdSilence(k) == SilenceAt(k) /\ SilenceAt(k - 1) /\ SilenceAt(k - 2)
\* the time of the last frame read
LastFrame == Len(frames)
\* the segment of the last on_segment call
LastSegment == segments[Len(segments)]

\* the time at which the segment before the i-th ended (0 for the first)
EndBefore(i) == IF i = 1 THEN 0 ELSE segments[i - 1].end
\* the time at which the detector was last put back in SILENCE: the end of
\* the last segment whose callback has returned
SilentSince == EndBefore(handled + 1)

\* C18: the detector is in SPEECH only from the second of two consecutive
\* speech frames on, the first such frame since it was last in SILENCE, and
\* the recorded start is the time of that frame; two consecutive speech
\* frames always put it in SPEECH; so a speech frame
\* followed by silence starts nothing, and every emitted segment starts at
\* such a second frame.
C18_StartHysteresis ==
  /\ in_speech =>
       /\ speech_start # Nothing
       /\ SecondOfTwo(speech_start[1])
       /\ \A k \in (SilentSince + 1)..(speech_start[1] - 1) :
            ~SecondOfTwo(k)
  /\ (SpeechAt(LastFrame) /\ SpeechAt(LastFrame - 1)) => in_speech
  /\ (SpeechAt(LastFrame) /\ ~SpeechAt(LastFrame - 1)) =>
       (in_speech <=> \E k \in 1..LastFrame :
                        speech_start = Some(k) /\ k < LastFrame)
  /\ \A i \in 1..Len(segments) :
       /\ SecondOfTwo(segments[i].start)
       /\ \A k \in (EndBefore(i) + 1)..(segments[i].start - 1) :
            ~SecondOfTwo(k)
  /\ (\A k \in 1..LastFrame : ~SecondOfTwo(k)) =>
       (segments = <<>> /\ ~in_speech)

\* C18 witness: a lone speech frame and a silence frame came first, and the
\* detector entered SPEECH at the second of the next two speech frames
C18_Witness ==
  /\ in_speech
  /\ speech_start = Some(LastFrame)
  /\ LastFrame >= 4
  /\ SilenceAt(LastFrame - 2)
  /\ SpeechAt(LastFrame - 3)
  /\ segments = <<>>

\* C19: every segment is emitted at the third consecutive silence frame read
\* in SPEECH and at no other time: its end is the time of that frame, no
\* earlier run of three silence frames lies inside it, the callback gets
\* (start, end, buffered audio) once per segment, and when the callback has
\* returned the detector is in SILENCE.
C19_EndHysteresis ==
  /\ \A i \in 1..Len(segments) :
       LET s == segments[i]
       IN  /\ ThirdSilence(s.end)
           /\ SpeechAt(s.end - 3)
           /\ s.start <= s.end - 3
           /\ \A k \in s.start..(s.end - 1) : ~ThirdSilence(k)
           /\ s.audio # None
           /\ i > 1 => segments[i - 1].end < s.start
  /\ (in_speech /\ vad_pc = "loop") => ~ThirdSilence(LastFrame)
  /\ vad_pc = "on_segment" =>
       /\ segments # <<>>
       /\ LastSegment.end = LastFrame
       /\ handled = Len(segments) - 1
  /\ vad_pc # "on_segment" => handled = Len(segments)
  /\ (vad_pc = "loop" /\ segments # <<>> /\ LastSegment.end = LastFrame) =>
       (~in_speech /\ speech_start = Nothing)

\* C19 witness: a segment that rode over a short silence has been emitted and
\* its callback has returned
C19_Witness ==
  /\ segments # <<>>
  /\ vad_pc = "loop"
  /\ LastSegment.end = LastFrame
  /\ \E k \in (LastSegment.start + 1)..(LastSegment.end - 3) : SilenceAt(k)

\* a second segment has been emitted after the first
C19_WitnessSecond ==
  /\ Len(segments) = 2
  /\ vad_pc = "on_segment"

\* the times from a through b in order
Range(a, b) == [ i \in 1..(b - a + 1) |-> a + i - 1 ]

\* C20 as claimed: the audio of every emitted segment is exactly the frames
\* from the first of its two triggering speech frames through its third
\* trailing silence frame, in capture order, and the buffer is empty after
\* each emission.
C20_SegmentAudio_AsClaimed ==
  /\ \A i \in 1..Len(segments) :
       segments[i].audio = Range(segments[i].start - 1, segments[i].end)
  /\ vad_pc = "on_segment" => audio_buffer = <<>>

\* what the segments hold besides the frames of their utterance: nothing
\* but speech frames read in SILENCE before the utterance, in capture order
C20_AudioUpToStrays ==
  /\ \A i \in 1..Len(segments) :
       LET s == segments[i]
           own == SelectSeq(s.audio, LAMBDA k : k >= s.start - 1)
           strays == SelectSeq(s.audio, LAMBDA k : k < s.start - 1)
       IN  /\ own = Range(s.start - 1, s.end)
           /\ \A j \in 1..Len(strays) :
                /\ SpeechAt(strays[j])
                /\ ~SpeechAt(strays[j] - 1)
                /\ ~SpeechAt(strays[j] + 1)
           /\ \A j \in 1..(Len(s.audio) - 1) : s.audio[j] < s.audio[j + 1]
  /\ vad_pc = "on_segment" => audio_buffer = <<>>

\* a segment that holds a frame from before its utterance has been emitted
C20_StrayReached ==
  /\ segments # <<>>
  /\ LastSegment.audio # Range(LastSegment.start - 1, LastSegment.end)

\* a transcription is in progress: on_segment has been called for a segment
\* and has not returned
TranscriptionInProgress == handled < Len(segments)

\* C12 as claimed: while the transcription of a segment is in progress the
\* detector's thread is at its capture loop, free to read the next frame.
C12_HandOff_AsClaimed == TranscriptionInProgress => vad_pc = "loop"

\* C13 as claimed: after stop() the capture loop exits, whenever stop() came.
\* running is written only by run() (True, once, before the loop) and by
\* stop() (False), so the loop exits after stop() exactly if the flag is
\* False whenever the thread is in the loop; and a thread that has finished
\* after opening its stream has closed it.
C13_Cancellation_AsClaimed ==
  /\ (stop_called /\ vad_pc \in { "loop", "on_segment" }) => ~running
  /\ (vad_pc = "done" /\ stream # "none") => stream = "closed"

\* the stream of a finished thread is closed
C13_StreamClosed == (vad_pc = "done" /\ stream # "none") => stream = "closed"

\* the handler was given a segment whose transcription is empty or failed
EmptySegment ==
  /\ last.op = "on_speech_segment"
  /\ last.transcript = <<>>
\* on_speech_transcript was called with an empty transcript
DirectEmpty == IsTranscript /\ last.transcript = <<>>
\* the machine, the transport and the observer before and after the handler
SegmentUntouched ==
  /\ View = PreView
  /\ emitted = <<>>
  /\ notified = <<>>

\* C16 as claimed: an empty or failed transcription reaches the machine as an
\* empty transcript: on_speech_transcript is called, returns no_transcript
\* and changes nothing.
C16_EmptyTranscript_AsClaimed ==
  EmptySegment =>
    /\ last.called
    /\ result = [ action |-> "no_transcript" ]
    /\ SegmentUntouched

\* C16 (amended): the segment handler drops an empty or failed transcription
\* without calling the machine, so no result is produced and nothing changes;
\* on_speech_transcript itself, called with an empty transcript, returns
\* no_transcript and changes nothing, in either state.
C16_EmptyTranscript ==
  /\ EmptySegment =>
       /\ ~last.called
       /\ result = [ action |-> "none" ]
       /\ SegmentUntouched
  /\ DirectEmpty =>
       /\ result = [ action |-> "no_transcript" ]
       /\ Untouched

\* C16 witness: a failed transcription arrived while a session was waiting
C16_Witness ==
  /\ EmptySegment
  /\ last.outcome = "error"
  /\ last.pre.state = STATE_DOUBT_MODE
  /\ last.pre.waiting_for_question
  /\ last.pre.connected

\* the direct call with an empty transcript is reached in DOUBT_MODE too
C16_WitnessDirect ==
  /\ DirectEmpty
  /\ last.pre.state = STATE_DOUBT_MODE
  /\ last.pre.waiting_for_question

\* ----------------------------------------------------- concurrent callers
\* no call is in progress
Quiescent == \A t \in Threads : thr_pc[t] = "idle"
\* a query went out after a resume with no pause in between, that is after
\* the resume of its own session
QueryAfterResume ==
  \E i, j \in 1..Len(wire) :
    /\ i < j
    /\ wire[i] = "video:resume"
    /\ wire[j] \in { "doubt:query", "ai:query" }
    /\ \A k \in (i + 1)..(j - 1) : wire[k] # "video:pause"

\* C11 as claimed: calls made at once from the two threads are serialized, so
\* when they have returned the machine is not in VIDEO_PLAYING with
\* waiting_for_question set or a session speaker recorded, and no query has
\* been emitted after the resume of its session.
C11_Serialized_AsClaimed ==
  /\ Quiescent =>
       ( state = STATE_VIDEO_PLAYING =>
           /\ waiting_for_question = FALSE
           /\ current_speaker = None )
  /\ ~QueryAfterResume

\* ------------------------------------------------------------------- C21
\* the audio source could not be opened
OpenFailed == fault = "open_failed"
\* what the caller that started the detector has been given: start() either
\* told it of a failure or it did not
CallerToldOfFailure == start_result = "failed"

\* C21 (as claimed): if the audio source cannot be opened, start-up aborts
\* without processing a frame and without crashing the host, and the
\* failure is reported to the caller that started the detector.
C21_OpenFailureReported_AsClaimed ==
  OpenFailed =>
    /\ frames = <<>> /\ segments = <<>>
    /\ vad_pc = "done" /\ ~running
    /\ CallerToldOfFailure

\* what does hold: start-up aborts, no frame is processed, run() returns
\* normally, and the caller was told "started" before the open was tried
C21_AbortsUnreported ==
  OpenFailed =>
    /\ frames = <<>> /\ segments = <<>>
    /\ vad_pc = "done" /\ ~running /\ stream = "none"
    /\ start_result = "started"
C21_OpenFailureReached == OpenFailed /\ stop_called

\* ------------------------------------------------------------------- C22
\* a frame read of the detector's loop has failed
VadReadFailed == fault = "read_failed"

\* a frame read of the loopback loop has failed
LoopbackReadFailed == lb_fault = "read_failed"

\* C22 (as claimed): a single failed frame read in a capture loop is logged
\* and the loop goes on with the next frame; the capture thread does not end
\* because of it.
C22_TransientRead_AsClaimed ==
  /\ VadReadFailed => vad_pc \in { "loop", "on_segment" }
  /\ LoopbackReadFailed => lb_pc = "loop"

\* what does hold: after a failed read no further frame is read, and the
\* thread leaves through its finally block, closing the stream
C22_ReadFailureEndsThread ==
  /\ VadReadFailed => /\ vad_pc \in { "finally", "done" }
                      /\ vad_pc = "done" => stream = "closed"
  /\ LoopbackReadFailed => /\ lb_pc \in { "finally", "done" }
                           /\ lb_pc = "done" => lb_stream = "closed"
C22_VadReadFailureReached ==
  VadReadFailed /\ vad_pc = "done" /\ running /\ Len(frames) > 0
C22_LoopbackReadFailureReached ==
  LoopbackReadFailed /\ lb_pc = "done" /\ lb_running /\ lb_reads > 0

\* ------------------------------------------------------------------- C23
\* the last step was a public operation of the machine, faulty or not
IsPublicOperation ==
  last.op \in { "on_speech_transcript", "force_exit_doubt_mode",
                "on_speech_transcript_raises", "force_exit_doubt_mode_raises" }
\* a collaborator raised during the last operation
CollaboratorRaised ==
  last.op \in { "on_speech_transcript_raises", "force_exit_doubt_mode_raises" }
\* the session fields match the state
SessionConsistent ==
  /\ state = STATE_VIDEO_PLAYING =>
       /\ current_speaker = None
       /\ doubt_start_time = Nothing
       /\ waiting_for_question = FALSE
  /\ state = STATE_DOUBT_MODE => doubt_start_time # Nothing
\* the observer of state changes was called by the last operation
StateObserverCalled ==
  \E i \in 1..Len(notified) : notified[i].callback = "on_state_change"
\* the result is one of the typed results of the machine
TypedResult ==
  result.action \in { "no_transcript", "entered_doubt_mode",
                      "exited_doubt_mode", "doubt_processed",
                      "already_in_doubt_mode", "no_action",
                      "not_in_doubt_mode" }

\* C23 (as claimed): no public operation propagates a fault: when an
\* emission or an observer callback raises during an enter, question or
\* exit transition the operation still returns a typed result, the session
\* fields match the state, and the observer was notified iff the state
\* changed.
C23_NoFaultPropagates_AsClaimed ==
  IsPublicOperation =>
    /\ TypedResult
    /\ SessionConsistent
    /\ StateObserverCalled <=> state # last.pre.state

\* what does hold: an operation in which nothing raises returns a typed
\* result; one in which a collaborator raises hands the exception to its
\* caller after the state was already written
C23_FaultPropagates ==
  /\ (IsPublicOperation /\ ~CollaboratorRaised) => TypedResult
  /\ CollaboratorRaised =>
       /\ result = Raised(last.point)
       /\ state # last.pre.state \/ last.pre.waiting_for_question
       /\ last.point \in EmitFaults => notified = <<>>
C23_ExitFaultReached ==
  /\ CollaboratorRaised
  /\ state = STATE_VIDEO_PLAYING
  /\ current_speaker # None

\* ------------------------------------------------------------------- C24
\* the last step was a call of detect_trigger
IsDetect == last.op = "detect_trigger"
\* some phrase of the transcript is of the given kind
HasPhrase(kind) ==
  \E i \in 1..Len(last.words) : DetectPhrases[last.words[i]].kind = kind
\* some phrase of the list matches the lowered, trimmed transcript
SomeMatches(triggers) ==
  \E k \in 1..Len(triggers) :
    TriggerMatches(Strip(Lower(last.transcript)), triggers[k])

\* C24: detect_trigger returns doubt whenever a doubt phrase matches, whether
\* or not a resume phrase matches too ("okay i have a doubt" gives doubt),
\* resume only when no doubt phrase matches and a resume phrase does, and
\* None otherwise.
C24_TriggerPriority ==
  IsDetect =>
    /\ SomeMatches(DOUBT_TRIGGERS) <=> HasPhrase("doubt")
    /\ SomeMatches(RESUME_TRIGGERS) <=> HasPhrase("resume")
    /\ result.trigger =
         IF HasPhrase("doubt") THEN "doubt"
         ELSE IF HasPhrase("resume") THEN "resume"
         ELSE None
C24_Witness ==
  /\ IsDetect
  /\ last.transcript = T_Both
  /\ SomeMatches(RESUME_TRIGGERS)
  /\ result.trigger = "doubt"
C24_WitnessResume ==
  /\ IsDetect
  /\ HasPhrase("resume") /\ ~HasPhrase("doubt") /\ HasPhrase(None)
  /\ result.trigger = "resume"
C24_WitnessNone ==
  /\ IsDetect
  /\ last.words # <<>> /\ ~HasPhrase("resume") /\ ~HasPhrase("doubt")
  /\ result.trigger = None

\* ------------------------------------------------------------------- C25
\* the last step was a call of extract_question
IsExtract == last.op = "extract_question"
\* the phrases left when rule k, k+1, ... are each tried once, in order, on
\* the head of what the rule before left
RECURSIVE PhrasesLeft(_, _)
PhrasesLeft(ws, k) ==
  IF k > 4 THEN ws
  ELSE IF ws # <<>> /\ ExtractPhrases[ws[1]].rule = k
    THEN PhrasesLeft(Tail(ws), k + 1)
  ELSE PhrasesLeft(ws, k + 1)
\* the example of the specification
T_DoubtChlorophyll ==
  <<"I"," ","h","a","v","e"," ","a"," ","d","o","u","b","t",","," ",
    "w","h","a","t"," ","i","s"," ","c","h","l","o","r","o","p","h","y","l","l">>

\* C25: extract_question applies the four prefix rules once each, in their
\* order, each to what the one before left, and returns the trimmed rest;
\* when no rule matches it returns the transcript trimmed ("I have a doubt,
\* what is chlorophyll" gives "what is chlorophyll").
C25_ExtractQuestion ==
  IsExtract =>
    /\ result.question =
         JoinPhrases(ExtractPhrases, PhrasesLeft(last.words, 1), last.sep)
    /\ PhrasesLeft(last.words, 1) = last.words =>
         result.question = Strip(last.transcript)
C25_Witness ==
  /\ IsExtract
  /\ last.transcript = T_DoubtChlorophyll
  /\ result.question = SubSeq(T_DoubtChlorophyll, 17, 35)
\* a rule is not applied again once a later one has exposed its prefix
C25_WitnessOnce ==
  /\ IsExtract
  /\ Len(last.words) = 3
  /\ ExtractPhrases[last.words[1]].rule = 3
  /\ ExtractPhrases[last.words[2]].rule = 1
  /\ Len(PhrasesLeft(last.words, 1)) = 2
  /\ result.question # <<>>

\* ------------------------------------------------------------------- C26
\* the last step was a call of process
IsProcess == last.op = "process"
\* the call had a microphone frame and a reference frame with samples
HasReference ==
  /\ last.mic_frame # Nothing
  /\ last.speaker_frame # Nothing /\ last.speaker_frame[1] # <<>>
\* the frames of the call cut to the shorter of the two
TrimmedLen == Min(Len(last.mic_frame[1]), Len(last.speaker_frame[1]))
TrimmedMic == Take(last.mic_frame[1], TrimmedLen)
TrimmedSpeaker == Take(last.speaker_frame[1], TrimmedLen)
\* the call went to speexdsp and speexdsp raised
SpeexRaised ==
  /\ IsProcess /\ HasReference
  /\ last.before.use_speexdsp /\ last.before.echo_state
  /\ ~last.speex_ok
\* process returned a value
Returned == "ret" \in DOMAIN result

\* C26 (as claimed): when speexdsp raises during process(), process() does
\* not raise: it returns what the native correlation subtraction gives for
\* the frame pair.
C26_Fallback_AsClaimed ==
  (SpeexRaised /\ TrimmedLen > 0) =>
    /\ Returned
    /\ result.ret = Some(basic_aec(TrimmedMic, TrimmedSpeaker))

\* what does hold: the exception of speexdsp is caught, and _basic_aec then
\* raises AttributeError, on this call and on every later one like it
C26_FallbackRaises ==
  SpeexRaised => result = [ raised |-> "AttributeError" ]
C26_FallbackReached == SpeexRaised /\ last.call = 2 /\ TrimmedLen > 0
\* a canceller that never had speexdsp runs the native algorithm
C26_NativeFromStart ==
  (IsProcess /\ HasReference /\ ~last.before.use_speexdsp /\ TrimmedLen > 0)
    => /\ Returned
       /\ result.ret = Some(basic_aec(TrimmedMic, TrimmedSpeaker))

\* ------------------------------------------------------------------- C27
\* the call had no reference frame, or one without samples
NoReference ==
  last.speaker_frame = Nothing \/ last.speaker_frame[1] = <<>>

\* C27 (as claimed): for every call of process with a microphone frame the
\* result is never null; with an absent or empty reference it is the
\* microphone frame unchanged, and otherwise it has as many samples as the
\* shorter of the two frames.
C27_OutputShape_AsClaimed ==
  (IsProcess /\ last.mic_frame # Nothing) =>
    /\ Returned
    /\ result.ret # Nothing
    /\ NoReference => result.ret = last.mic_frame
    /\ ~NoReference => Len(result.ret[1]) = TrimmedLen

\* what does hold: whenever process returns, the shape is as stated; it
\* raises when the native path gets no sample or has no reference buffer
C27_ShapeWhenReturned ==
  (IsProcess /\ last.mic_frame # Nothing /\ Returned) =>
    /\ result.ret # Nothing
    /\ NoReference => result.ret = last.mic_frame
    /\ ~NoReference => Len(result.ret[1]) = TrimmedLen
C27_RaisesOnlyWhen ==
  (IsProcess /\ ~Returned) =>
    /\ HasReference
    /\ \/ SpeexRaised /\ result.raised = "AttributeError"
       \/ /\ ~last.before.use_speexdsp /\ TrimmedLen = 0
          /\ result.raised = "ValueError"
\* the native path given a microphone frame without samples
C27_EmptyMicReached ==
  /\ IsProcess /\ HasReference /\ ~last.before.use_speexdsp
  /\ last.mic_frame = Some(<<>>)
  /\ ~Returned
\* a reference longer than the microphone frame
C27_TruncationReached ==
  /\ IsProcess /\ HasReference /\ Returned
  /\ Len(last.speaker_frame[1]) > Len(last.mic_frame[1])
  /\ Len(result.ret[1]) = Len(last.mic_frame[1])

\* ------------------------------------------------------------------- C28
\* the call had a reference of the microphone frame's length whose energy
\* does not exceed the noise floor, and speexdsp did not answer it
QuietReference ==
  /\ IsProcess /\ HasReference
  /\ Len(last.speaker_frame[1]) = Len(last.mic_frame[1])
  /\ ~AboveNoiseFloor(last.speaker_frame[1])
  /\ ~(last.before.use_speexdsp /\ last.before.echo_state /\ last.speex_ok)
\* the reference of the call is all zeros
ZeroReference == \A i \in 1..Len(last.speaker_frame[1]) :
                   last.speaker_frame[1][i] = 0

\* C28 (as claimed): when the energy of the reference frame does not exceed
\* the noise floor, in particular for an all-zero reference of the length of
\* the microphone frame, process() returns the microphone samples unchanged.
C28_PassThrough_AsClaimed ==
  QuietReference => /\ Returned
                    /\ result.ret = last.mic_frame

\* what does hold: a canceller that is native from its construction passes
\* the microphone samples through for a quiet reference
C28_NativePassThrough ==
  (QuietReference /\ ~last.before.use_speexdsp) =>
    /\ Returned
    /\ result.ret = last.mic_frame
C28_NativeZeroReached ==
  /\ QuietReference /\ ~last.before.use_speexdsp /\ ZeroReference
  /\ Returned /\ result.ret = last.mic_frame /\ last.mic_frame # Some(<<>>)
\* a reference exactly at the floor, and a loud one without variation
C28_AtFloorReached ==
  /\ QuietReference /\ ~last.before.use_speexdsp /\ ~ZeroReference
  /\ Returned /\ result.ret = last.mic_frame
\* a reference above the floor changes the samples
C28_ActiveReached ==
  /\ IsProcess /\ HasReference /\ ~last.before.use_speexdsp /\ Returned
  /\ AboveNoiseFloor(TrimmedSpeaker)
  /\ result.ret # Some(TrimmedMic)
C28_FallbackZeroReached == QuietReference /\ ZeroReference /\ SpeexRaised

\* ------------------------------------------------------------------- C29
\* C29 (as claimed): every microphone frame the detector classifies has
\* first been passed through the echo canceller: what is classified is the
\* frame process() returned, never the frame as read.
C29_PipelineOrder_AsClaimed ==
  \A i \in 1..Len(classified) : classified[i] = "process"

\* what does hold: every frame is classified as stream.read returned it, and
\* the echo canceller is never constructed or called
C29_RawFramesOnly ==
  /\ \A i \in 1..Len(classified) : classified[i] = "stream.read"
  /\ Len(classified) = Len(frames)
  /\ ~aec.constructed /\ aec_calls = 0
\* and the runner, which passes enable_aec to a constructor that does not
\* take it, never has a detector
C29_RunnerHasNoDetector ==
  init_vad # Nothing => /\ ~init_vad[1].returned
                        /\ runner_vad = None
C29_RunnerReached ==
  /\ init_vad # Nothing
  /\ init_vad[1].enable_vad /\ init_vad[1].enable_aec
  /\ Len(classified) > 2

\* ------------------------------------------------------------------- C30
\* a transcript heard in DOUBT_MODE after the question of the session
AfterQuestionCase ==
  /\ IsTranscript
  /\ last.transcript # <<>>
  /\ last.pre.state = STATE_DOUBT_MODE
  /\ ~last.pre.waiting_for_question

\* within a session: at most one question is taken, waiting_for_question is
\* false exactly once it has been, a later transcript without a trigger is
\* dropped with no_action and a doubt trigger does not set the flag again
OneQuestion ==
  /\ asked <= 1
  /\ state = STATE_DOUBT_MODE => (waiting_for_question <=> asked = 0)
  /\ (AfterQuestionCase /\ last.trigger = None) =>
       /\ result = [ action |-> "no_action",
                     transcript |-> Strip(last.transcript) ]
       /\ Untouched
       /\ asked = 1
  /\ (AfterQuestionCase /\ last.trigger = "doubt") =>
       /\ state = STATE_DOUBT_MODE
       /\ ~waiting_for_question
       /\ asked = 1
\* no step inside a session sets waiting_for_question again
StaysFalse ==
  (state = STATE_DOUBT_MODE /\ ~waiting_for_question
     /\ state' = STATE_DOUBT_MODE) => ~waiting_for_question'

\* C30: between entering DOUBT_MODE and leaving it at most one question is
\* dispatched; once waiting_for_question is false it stays false until the
\* session ends, every later transcript without a trigger is dropped with
\* no_action, and a doubt trigger inside the session does not re-arm it.
C30_OneQuestionPerSession == []OneQuestion /\ [][StaysFalse]_vars

\* with collaborators that raise the count stays at most one as well
AtMostOneQuestion == asked <= 1

\* C30 witness: a second transcript without a trigger was dropped after the
\* question of the session had been dispatched
C30_Witness ==
  /\ AfterQuestionCase
  /\ last.trigger = None
  /\ last.pre.connected
  /\ asked = 1
\* and a doubt trigger arrived after the question
C30_WitnessDoubt ==
  /\ AfterQuestionCase
  /\ last.trigger = "doubt"
  /\ asked = 1

\* ------------------------------------------------------------------- C31
\* start() has finished its initialisation with every module importable and
\* every constructor of a dependency succeeding
AllConstructible == classroom.pc = "running" /\ wiring.constructible

\* C31 (as claimed): after start() with the client, the transcriber, the
\* detector and the doubt assistant all importable and constructible, the
\* runner holds a detector and a doubt assistant, and every segment with a
\* transcript that is not empty gave one on_speech_transcript call.
C31_RunnerWiring_AsClaimed ==
  AllConstructible =>
    /\ runner_vad # None
    /\ classroom.doubt_assistant # None
    /\ wiring.calls = wiring.heard

\* what does hold: start() never leaves a detector or a doubt assistant in
\* place and the handler never calls the machine
C31_NothingWired ==
  /\ runner_vad = None
  /\ classroom.doubt_assistant = None
  /\ wiring.calls = 0
\* a segment with words in it reached the handler of a runner with every
\* module available
C31_SegmentHeardReached ==
  /\ AllConstructible
  /\ classroom.client # None /\ classroom.stt # None
  /\ wiring.heard > 0

\* ------------------------------------------------------------------- C32
\* the outcomes of POST /api/generate the claim calls a failure
FailedOutcomes == { "http_error", "timeout", "conn_error" }
\* the last call was a generate that failed
GenerateFailed == last.op = "generate" /\ last.outcome \in FailedOutcomes
\* this step is the first check_health(force=False) after that failure
CheckAfterFailure ==
  /\ GenerateFailed
  /\ last'.op = "check_health"
  /\ ~last'.force
\* the call answered False from the cache, without a probe
AnsweredUnprobed ==
  /\ ~result'.probed
  /\ result'.value = FALSE
  /\ UNCHANGED << healthy, last_health_check >>

\* C32 (as claimed): a failed generate marks the capability unhealthy, and
\* check_health(force=False) then returns False without a new probe for as
\* long as less than the retry interval has passed since that failure.
C32_RetryAfterFailure_AsClaimed ==
  /\ [](GenerateFailed => healthy = Some(FALSE))
  /\ [][ (CheckAfterFailure /\ last'.at - last.at < OLLAMA_RETRY_INTERVAL)
           => AnsweredUnprobed ]_vars

\* what does hold: the failure marks the capability unhealthy, but the
\* interval runs from the last probe (or from time 0 when there was none),
\* which generate does not move
C32_IntervalFromLastProbe ==
  /\ [](GenerateFailed => /\ healthy = Some(FALSE)
                          /\ last_health_check = last.pre_last_health_check)
  /\ [][ CheckAfterFailure =>
           IF last'.at - last_health_check < OLLAMA_RETRY_INTERVAL
           THEN AnsweredUnprobed
           ELSE result'.probed /\ last_health_check' = last'.at ]_vars
\* a check that found the capability marked unhealthy and probed again, the
\* last probe being a full interval old
C32_EarlyProbeReached ==
  /\ last.op = "check_health" /\ ~last.force
  /\ last.pre.healthy = Some(FALSE)
  /\ result.probed
  /\ last.at - last.pre_last_health_check >= OLLAMA_RETRY_INTERVAL
  /\ last.pre_last_health_check > 0
\* a check after a failure that was answered from the cache
C32_CachedReached ==
  /\ last.op = "check_health" /\ ~last.force
  /\ last.pre.healthy = Some(FALSE)
  /\ ~result.probed

\* ------------------------------------------------------------------- C33
\* the last call to the machine emitted the event named name
Emitted(name) ==
  IsMachineCall /\ \E i \in 1..Len(emitted) : emitted[i].event = name

\* C33 (as claimed): whatever the transcripts, forced exits, connects and
\* disconnects, video:pause and video:resume alternate strictly, starting
\* with a pause, and in VIDEO_PLAYING the last of them was not a pause.
C33_PauseResumePairing_AsClaimed ==
  /\ playback.alternating
  /\ state = STATE_VIDEO_PLAYING => playback.last # "pause"

\* C33 (amended): video:pause is emitted only by an entry into DOUBT_MODE
\* and video:resume only by an exit from it, each only while the transport
\* is connected; as long as every entry and exit so far was made with the
\* transport connected, the two commands alternate strictly starting with a
\* pause, the last one is a pause in DOUBT_MODE and is not a pause in
\* VIDEO_PLAYING.
C33_PauseResumePairing ==
  /\ Emitted("video:pause") =>
       /\ last.pre.state = STATE_VIDEO_PLAYING /\ state = STATE_DOUBT_MODE
       /\ last.pre.connected
       /\ playback.last = "pause"
  /\ Emitted("video:resume") =>
       /\ last.pre.state = STATE_DOUBT_MODE /\ state = STATE_VIDEO_PLAYING
       /\ last.pre.connected
       /\ playback.last = "resume"
  /\ ~playback.offline =>
       /\ playback.alternating
       /\ state = STATE_VIDEO_PLAYING => playback.last # "pause"
       /\ state = STATE_DOUBT_MODE => playback.last = "pause"

\* C33 witness: a second session was resumed, every entry and exit made
\* with the transport connected
C33_Witness ==
  /\ Emitted("video:resume")
  /\ ~playback.offline
  /\ last.pre.doubt_start_time # Nothing
  /\ last.pre.doubt_start_time[1] > EpochStart
\* the ways the claim fails: a resume that no pause precedes, two pauses in
\* a row, and VIDEO_PLAYING with the video left paused
C33_ResumeWithoutPauseReached ==
  Emitted("video:resume") /\ last.pre.connected /\ ~playback.alternating
C33_PauseTwiceReached ==
  Emitted("video:pause") /\ ~playback.alternating
C33_LeftPausedReached ==
  state = STATE_VIDEO_PLAYING /\ playback.last = "pause"

\* ------------------------------------------------------------------- C34
\* a transcript of white space only, heard while waiting for the question
BlankWhileWaiting ==
  /\ IsTranscript
  /\ last.transcript # <<>>
  /\ Strip(last.transcript) = <<>>
  /\ last.pre.state = STATE_DOUBT_MODE
  /\ last.pre.waiting_for_question
\* the last call dispatched a question
Dispatched == IsTranscript /\ result.action = "doubt_processed"
\* no doubt:query just emitted carries an empty question
NoEmptyQuery ==
  \A i \in 1..Len(emitted) :
    emitted[i].event = "doubt:query" => emitted[i].question # <<>>

\* C34 (as claimed): every query dispatched carries a question that is not
\* empty; a transcript that is empty once trimmed, heard in DOUBT_MODE while
\* waiting for the question, dispatches no query and leaves
\* waiting_for_question true.
C34_NonEmptyQuestion_AsClaimed ==
  /\ Dispatched => (result.question # <<>> /\ NoEmptyQuery)
  /\ BlankWhileWaiting =>
       /\ ~Dispatched
       /\ emitted = <<>>
       /\ waiting_for_question

\* what does hold: the blank transcript is taken as the question, with an
\* empty text, and uses up the question of the session; every other
\* question dispatched is not empty
C34_BlankIsDispatched ==
  /\ BlankWhileWaiting =>
       /\ Dispatched
       /\ result.question = <<>>
       /\ ~waiting_for_question
       /\ last.pre.connected =>
            EventNames(emitted) = << "doubt:query", "ai:query" >>
  /\ (Dispatched /\ Strip(last.transcript) # <<>>) =>
       (result.question # <<>> /\ NoEmptyQuery)
\* a blank transcript was dispatched as a query over a connected transport
C34_BlankQueryReached ==
  /\ BlankWhileWaiting
  /\ last.pre.connected
  /\ ~NoEmptyQuery

\* ------------------------------------------------------------------- C35
\* a doubt trigger heard in DOUBT_MODE while waiting for the question
DoubtWhileWaiting ==
  /\ IsTranscript
  /\ last.pre.state = STATE_DOUBT_MODE
  /\ last.pre.waiting_for_question
  /\ last.trigger = "doubt"
\* it was acknowledged and nothing else happened
Acknowledged ==
  /\ result = [ action |-> "already_in_doubt_mode" ]
  /\ Untouched
  /\ state = STATE_DOUBT_MODE
  /\ waiting_for_question
\* the call that follows it is a transcript with words and no trigger
QuestionFollows ==
  /\ DoubtWhileWaiting
  /\ last'.op = "on_speech_transcript"
  /\ last'.trigger = None
  /\ Strip(last'.transcript) # <<>>

\* C35: in DOUBT_MODE while waiting for the question a doubt trigger returns
\* already_in_doubt_mode, dispatches no query, emits nothing and leaves
\* waiting_for_question true, and the transcript without a trigger that
\* follows is processed as the question.
C35_DoubtWhileWaiting ==
  /\ [](DoubtWhileWaiting => Acknowledged)
  /\ [][ QuestionFollows =>
           /\ result'.action = "doubt_processed"
           /\ ~waiting_for_question'
           /\ asked' = 1 ]_vars

\* C35 witness: a second doubt trigger was heard while waiting, transport
\* connected
C35_Witness == DoubtWhileWaiting /\ last.pre.connected /\ last.speaker # None

\* ------------------------------------------------------------------- C36
\* C36: whatever the classification of the frames, every segment handed to
\* on_segment has start <= end, the segments come in capture order, and each
\* starts after the one before it ended.  (Times are the reads of the
\* frames in order: datetime.now() is taken not to step backwards.)
C36_SegmentOrdering ==
  \A i \in 1..Len(segments) :
    /\ segments[i].start <= segments[i].end
    /\ segments[i].end <= Len(frames)
    /\ i > 1 => segments[i].start > segments[i - 1].end

\* C36 witness: a second segment was emitted
C36_Witness ==
  /\ Len(segments) >= 2
  /\ segments[2].start > segments[1].end + 1

\* ------------------------------------------------------------------- C37
\* the on_segment call of segment i raised
RaisedAt(i) == i \in 1..Len(segments) /\ segments[i].raised
\* the frames of the utterance of a segment: from the first of its two
\* triggering speech frames through its third trailing silence frame
OwnFrames(s) == Range(s.start - 1, s.end)
\* the call of the last segment raised and has been dealt with
JustRaised ==
  /\ segments # <<>>
  /\ LastSegment.raised
  /\ handled = Len(segments)

\* after it, and before another frame is read, the thread is in its loop
\* (unless stop() or a failing read ended it) with an empty buffer, in
\* SILENCE
Resumed ==
  (JustRaised /\ Len(frames) = LastSegment.end) =>
    /\ (running /\ fault = "none") => vad_pc = "loop"
    /\ audio_buffer = <<>>
    /\ ~in_speech
    /\ speech_start = Nothing

\* C37 (as claimed): when on_segment raises, the loop keeps running with the
\* buffer cleared and the detector back in SILENCE, and the segment of a
\* later utterance holds its own frames and no others.
C37_CallbackRaises_AsClaimed ==
  /\ Resumed
  /\ \A i \in 2..Len(segments) :
       RaisedAt(i - 1) => segments[i].audio = OwnFrames(segments[i])

\* what does hold: the exception is contained, the buffer is empty and the
\* detector in SILENCE when the loop resumes, and the later segment holds
\* its own frames and nothing captured up to the end of the segment whose
\* call raised, but it may hold lone speech frames read in between
C37_RaiseContained ==
  /\ Resumed
  /\ \A i \in 2..Len(segments) :
       RaisedAt(i - 1) =>
         LET s == segments[i]
         IN  /\ SelectSeq(s.audio, LAMBDA k : k >= s.start - 1) = OwnFrames(s)
             /\ \A j \in 1..Len(s.audio) :
                  /\ s.audio[j] > segments[i - 1].end
                  /\ s.audio[j] < s.start - 1 =>
                       /\ SpeechAt(s.audio[j])
                       /\ ~SpeechAt(s.audio[j] - 1)
                       /\ ~SpeechAt(s.audio[j] + 1)
\* after a call that raised a later segment has been emitted
C37_LaterSegmentReached ==
  /\ Len(segments) >= 2
  /\ RaisedAt(1)
  /\ segments[2].audio = OwnFrames(segments[2])
\* and one with a lone speech frame from before its utterance
C37_StrayAfterRaiseReached ==
  /\ Len(segments) >= 2
  /\ RaisedAt(1)
  /\ segments[2].audio # OwnFrames(segments[2])

\* ------------------------------------------------ the classroom display
\* what the runner shows: a dict reduced to its type and its content; an AI
\* response's content is the serial number of the response
Shown(type, content) == Some([ type |-> type, content |-> content ])
BroadcastTypes == { "announcement", "notice" }
off_display == << session, detector, capture, threads, loopback, canceller,
                 runner, on_command, commands, acks, stream_camera >>

\* the test of _clear_ai_response on the value it has read
IsAiResponse(current) ==
  /\ current # Nothing
  /\ current[1].type = "ai_response"

\* ClassroomRunner._on_ai_response: show the response, start its timer
OnAiResponse ==
  /\ Len(clear_timers) < MaxCalls
  /\ display_content' = Shown("ai_response", Len(clear_timers) + 1)
  /\ clear_timers' = Append(clear_timers,
                            [ pc |-> "waiting", current |-> Nothing ])
  /\ UNCHANGED cleared
  /\ UNCHANGED off_display

\* _clear_ai_response, first half: the timer thread reads display_content
\* under the lock and releases it
clear_ai_response_read(i) ==
  /\ clear_timers[i].pc = "waiting"
  /\ \A j \in 1..(i - 1) : clear_timers[j].pc # "waiting"
  /\ clear_timers' = [ clear_timers EXCEPT
                         ![i] = [ pc |-> "read",
                                  current |-> display_content ] ]
  /\ UNCHANGED << display_content, cleared >>
  /\ UNCHANGED off_display

\* _clear_ai_response, second half: the test on the value read, and the
\* assignment under the lock taken again
clear_ai_response_write(i) ==
  /\ clear_timers[i].pc = "read"
  /\ clear_timers' = [ clear_timers EXCEPT ![i].pc = "done" ]
  /\ IF IsAiResponse(clear_timers[i].current)
       THEN /\ display_content' = Nothing
            /\ cleared' = cleared \cup
                 { [ timer |-> i, removed |-> display_content ] }
       ELSE UNCHANGED << display_content, cleared >>
  /\ UNCHANGED off_display

ClearAiResponseRead ==
  \E i \in 1..Len(clear_timers) : clear_ai_response_read(i)

ClearAiResponseWrite ==
  \E i \in 1..Len(clear_timers) : clear_ai_response_write(i)

\* ClassroomRunner._on_emergency: an alert, or the stop signal
on_emergency(action) ==
  /\ IF action = "stop"
       THEN IF display_content # Nothing
               /\ display_content[1].type = "emergency"
              THEN display_content' = Nothing
              ELSE UNCHANGED display_content
       ELSE display_content' = Shown("emergency", "EMERGENCY")
  /\ UNCHANGED << clear_timers, cleared >>
  /\ UNCHANGED off_display

OnEmergency == \E action \in { "alert", "stop" } : on_emergency(action)

\* ClassroomRunner._on_broadcast
OnBroadcast ==
  /\ \E msg_type \in BroadcastTypes :
       display_content' = Shown(msg_type, "content")
  /\ UNCHANGED << clear_timers, cleared >>
  /\ UNCHANGED off_display

\* ClassroomRunner._on_doubt_state_change
on_doubt_state_change(new_state) ==
  /\ IF new_state = STATE_DOUBT_MODE
       THEN display_content' =
              Shown("doubt_mode", "Listening for your question...")
       ELSE display_content' = Nothing
  /\ UNCHANGED << clear_timers, cleared >>
  /\ UNCHANGED off_display

OnDoubtStateChange ==
  \E new_state \in { STATE_DOUBT_MODE, STATE_VIDEO_PLAYING } :
    on_doubt_state_change(new_state)

\* ClassroomRunner._on_doubt_processed
OnDoubtProcessed ==
  /\ display_content' = Shown("doubt_question", "question")
  /\ UNCHANGED << clear_timers, cleared >>
  /\ UNCHANGED off_display

NextDisplay ==
  \/ OnAiResponse
  \/ ClearAiResponseRead
  \/ ClearAiResponseWrite
  \/ OnEmergency
  \/ OnBroadcast
  \/ OnDoubtStateChange
  \/ OnDoubtProcessed

\* the display under the handlers that write it and the clear timers
SpecDisplay == Init /\ [][NextDisplay]_vars

\* ------------------------------------------- control commands and acks
\* the commandId of a control:command; None when the key is absent
CommandIds == { "cmd-1", "cmd-2", None }
CommandActions == { "ping", "status", "start-camera", "stop-camera",
                    "reload-faces", "display-content", "get-presence",
                    "reboot" }
\* data["params"]: the key absent, null, or a dict with a content
CommandParams == { "absent", "null", "content" }
Commands ==
  [ commandId : CommandIds, action : CommandActions, params : CommandParams ]
RunnerOnCommand == "ClassroomRunner._on_command"
off_commands == << session, detector, capture, threads, loopback, canceller,
                  runner, clear_timers, cleared >>

\* how a handler ends: it returns a value or raises an exception
HandlerReturned(value) == [ raised |-> FALSE, value |-> value ]
HandlerRaised(type, message) ==
  [ raised |-> TRUE, value |-> [ type |-> type, message |-> message ] ]
\* str(e): the message of the exception
str(e) == e.message

\* DeviceClient._handle_default_command
handle_default_command(data) ==
  IF data.action = "ping"
    THEN HandlerReturned([ pong |-> TRUE, timestamp |-> now ])
    ELSE IF data.action = "status"
      THEN HandlerReturned([ deviceId |-> DeviceId, status |-> "online",
                      timestamp |-> now ])
      ELSE HandlerReturned([ handled |-> FALSE, action |-> data.action ])

\* ClassroomRunner._on_command: what it returns or raises
runner_on_command(data) ==
  CASE data.action = "start-camera" -> HandlerReturned([ streaming |-> TRUE ])
    [] data.action = "stop-camera" -> HandlerReturned([ streaming |-> FALSE ])
    [] data.action = "reload-faces" ->
         HandlerReturned([ reloaded |-> FALSE,
                    error |-> "No recognizer available" ])
    [] data.action = "display-content" ->
         IF data.params = "null"
           THEN HandlerRaised("AttributeError",
                       "'NoneType' object has no attribute 'get'")
           ELSE HandlerReturned([ displayed |-> TRUE ])
    [] data.action = "get-presence" -> HandlerReturned([ faces |-> <<>> ])
    [] OTHER -> HandlerReturned([ unknown_action |-> data.action ])

\* ClassroomRunner._on_command: what it assigns
runner_on_command_effects(data) ==
  /\ stream_camera' =
       CASE data.action = "start-camera" -> TRUE
         [] data.action = "stop-camera" -> FALSE
         [] OTHER -> stream_camera
  /\ display_content' =
       IF data.action = "display-content" /\ data.params # "null"
         THEN IF data.params = "content"
                THEN Shown("slide", "content")
                ELSE Nothing
         ELSE display_content

\* on_control as it would be if it reported success whatever happened
on_control_AlwaysSuccess(data) ==
  LET out == IF on_command # None
               THEN runner_on_command(data)
               ELSE handle_default_command(data)
      error == IF out.raised THEN Some(str(out.value)) ELSE Nothing
      value == IF out.raised THEN Nothing ELSE Some(out.value)
  IN  /\ Len(commands) < MaxCalls
      /\ commands' = Append(commands, [ data |-> data, outcome |-> out ])
      /\ IF on_command # None
           THEN runner_on_command_effects(data)
           ELSE UNCHANGED << display_content, stream_camera >>
      /\ acks' = Append(acks, [ commandId |-> data.commandId,
                                success |-> TRUE,
                                error |-> error,
                                result |-> value ])
      /\ UNCHANGED on_command
      /\ UNCHANGED off_commands

\* DeviceClient on_control: run the handler, emit the control:ack
on_control(data) ==
  LET out == IF on_command # None
               THEN runner_on_command(data)
               ELSE handle_default_command(data)
      error == IF out.raised THEN Some(str(out.value)) ELSE Nothing
      value == IF out.raised THEN Nothing ELSE Some(out.value)
  IN  /\ Len(commands) < MaxCalls
      /\ commands' = Append(commands, [ data |-> data, outcome |-> out ])
      /\ IF on_command # None
           THEN runner_on_command_effects(data)
           ELSE UNCHANGED << display_content, stream_camera >>
      /\ acks' = Append(acks, [ commandId |-> data.commandId,
                                success |-> error = Nothing,
                                error |-> error,
                                result |-> value ])
      /\ UNCHANGED on_command
      /\ UNCHANGED off_commands

OnControl == \E data \in Commands : on_control(data)

\* ClassroomRunner._init_client: the client is built with the runner's
\* handler; a DeviceClient built without one keeps on_command = None
InitClientHandlers ==
  /\ on_command = None
  /\ commands = <<>>
  /\ on_command' = RunnerOnCommand
  /\ UNCHANGED << display_content, stream_camera, commands, acks >>
  /\ UNCHANGED off_commands

NextCommands ==
  \/ InitClientHandlers
  \/ OnControl

\* the device client receiving control commands
SpecCommands == Init /\ [][NextCommands]_vars

\* C38: a clear timer started for an AI response sets the display to None
\* only while that same response is the content displayed: it never
\* removes an emergency, a broadcast, a doubt-mode content or a newer AI
\* response
C38_AutoClear_AsClaimed ==
  \A c \in cleared :
    c.removed # Nothing => c.removed = Shown("ai_response", c.timer)

\* what does hold: a timer writes None only after it has read an AI
\* response, its own or a newer one, as the content displayed
C38_ClearsAfterReadingAiResponse ==
  /\ \A c \in cleared :
       /\ clear_timers[c.timer].pc = "done"
       /\ IsAiResponse(clear_timers[c.timer].current)
       /\ clear_timers[c.timer].current[1].content >= c.timer
  /\ \A i \in 1..Len(clear_timers) :
       (clear_timers[i].pc = "done" /\ ~IsAiResponse(clear_timers[i].current))
         => \A c \in cleared : c.timer # i
\* the timer of the first response removes the second one
C38_NewerResponseRemovedReached ==
  \E c \in cleared : c.removed = Shown("ai_response", c.timer + 1)
\* a timer removes an emergency shown between its read and its write
C38_EmergencyRemovedReached ==
  \E c \in cleared : c.removed = Shown("emergency", "EMERGENCY")
\* a timer removes the doubt-mode content
C38_DoubtModeRemovedReached ==
  \E c \in cleared :
    c.removed # Nothing /\ c.removed[1].type = "doubt_mode"
\* a timer removes its own response
C38_OwnResponseRemovedReached ==
  \E c \in cleared : c.removed = Shown("ai_response", c.timer)

\* the ack of the i-th command received
AckOf(i) == acks[i]
\* C39: every control:command received produces exactly one control:ack
\* with that command's commandId, with success = true and the handler's
\* result when the handler returned, and with success = false and the
\* error text when the handler raised
C39_CommandAck ==
  /\ Len(acks) = Len(commands)
  /\ \A i \in 1..Len(commands) :
       LET c == commands[i]
       IN  /\ AckOf(i).commandId = c.data.commandId
           /\ ~c.outcome.raised =>
                /\ AckOf(i).success = TRUE
                /\ AckOf(i).result = Some(c.outcome.value)
                /\ AckOf(i).error = Nothing
           /\ c.outcome.raised =>
                /\ AckOf(i).success = FALSE
                /\ AckOf(i).error = Some(c.outcome.value.message)
                /\ AckOf(i).result = Nothing
\* a command whose handler raised and one whose handler returned have both
\* been acknowledged
C39_Witness ==
  /\ Len(acks) = 2
  /\ commands[1].outcome.raised
  /\ commands[1].data.commandId = "cmd-1"
  /\ AckOf(1).success = FALSE
  /\ ~commands[2].outcome.raised
  /\ commands[2].data.commandId = "cmd-2"
  /\ AckOf(2).success = TRUE

====
